---- MODULE Spec2Model ----
(***************************************************************************)
(* Scripted playback and forced typing of flowprop.                        *)
(*                                                                         *)
(* The repository holds five React programs that each implement the same   *)
(* prop: src/src/App.jsx is three of them back to back (LiveChat, lines    *)
(* 1-718; LiveChatMode, lines 719-1437; FlowProp/LiveModeView, lines       *)
(* 1438-2111), src/unnamed/part_001 is the fourth (LiveScreen) and         *)
(* src/unnamed/part_000 the fifth (the on-screen keyboard).  One behaviour *)
(* of this model is one of the five programs running one script: the       *)
(* variable app says which.                                                *)
(*                                                                         *)
(* A handler is one action: React runs an event handler or a timer         *)
(* callback to its end, then re-renders and runs the effects whose         *)
(* dependencies changed, before the next event is handled.                 *)
(***************************************************************************)
EXTENDS Integers, Sequences, FiniteSets, TLC

VARIABLES
    app,            \* which of the five programs runs
    script,         \* the authored lines (messages / conversation)
    delays,         \* the authored delay of each line (startDelay / delay)
    speakers,       \* LiveChat: the participantId of each line
    participants,   \* LiveChat: the ids of the scene's participants
    projects,       \* the projects the shell keeps, and which of them is open
    runs,           \* how many times live mode was entered (the mounted instance)
    timers,         \* pending setTimeout callbacks, in registration order
    liveChat,       \* LiveChat: appState, displayedMessages, scriptIndex, isTyping
    forcedTyping,   \* LiveChat's ForcedTypingInput: mounted, displayText, scriptIndex
    liveChatMode,   \* LiveChatMode and its useForcedTyping hook
    flowProp,       \* FlowProp: the state LiveModeView works on
    liveScreen,     \* LiveScreen and its ForcedTypingInput
    keyboard,       \* part_000 App: displayText, currentIndex, isFinished
    lastOp,         \* history: what the last handler did
    typed,          \* history: printable keys since the awaited line changed
    prior,          \* history: the capture before the last printable or erase key
    typingStarted,  \* history: lines whose typing indicator was turned on, this run
    snapshot        \* history: the script as it was when the session started

vars == <<app, script, delays, speakers, participants, projects, runs, timers,
          liveChat, forcedTyping, liveChatMode, flowProp, liveScreen, keyboard,
          lastOp, typed, prior, typingStarted, snapshot>>

\* What is authored before a session: no handler of a live session assigns it.
authored == <<app, script, delays, speakers, participants, projects>>

(***************************************************************************)
(* Bounds                                                                  *)
(***************************************************************************)
MaxLines == 2
MaxLen == 2
MaxRuns == 2
MaxDelay == 1
MaxScenes == 2

Apps == {"LiveChat", "LiveChatMode", "LiveModeView", "LiveScreen", "Keyboard"}

Chars == {"a", "b"}

OtherChar(c) == IF c = "a" THEN "b" ELSE "a"

\* The texts of the model: "", "a", "b", "ab", "ba", ... (two texts of every length).
AltText(c, n) == [i \in 1..n |-> IF i % 2 = 1 THEN c ELSE OtherChar(c)]

Texts == {AltText(c, n) : c \in Chars, n \in 0..MaxLen}

Owners == {"actor", "auto"}

\* FlowProp's handleAddMessage keeps a message only if (text) is truthy.
LineTexts(a) == IF a = "LiveModeView" THEN Texts \ {<<>>} ELSE Texts

Lines(a) == [owner : Owners, text : LineTexts(a)]

Scripts(a) ==
    IF a = "Keyboard" THEN {<<>>}
    ELSE UNION {[1..n -> Lines(a)] : n \in 0..MaxLines}

\* A line's delay (startDelay, delay) is the string 'natural', a number of
\* seconds or, in the second shell, NaN (parseInt of an emptied field); its
\* typingDelay is 'natural' or a number of units of 50 ms a character.  The
\* number is secs whole seconds and ms thousandths of one: only the fourth
\* program's Number(e.target.value) keeps a fraction.
NaturalDelay ==
    [natural |-> TRUE, nan |-> FALSE, secs |-> 0, ms |-> 0,
     typingNatural |-> TRUE, typingUnits |-> 0]

ManualDelay(d) ==
    [natural |-> FALSE, nan |-> FALSE, secs |-> d, ms |-> 0,
     typingNatural |-> TRUE, typingUnits |-> 0]

NaNDelay ==
    [natural |-> FALSE, nan |-> TRUE, secs |-> 0, ms |-> 0,
     typingNatural |-> TRUE, typingUnits |-> 0]

\* A new line of LiveChat's script editor has startDelay 1 and typingDelay
\* 'natural'; one of ScriptBuilder's form and one of SetupScreen have delay 2.
DefaultDelay == IF app = "LiveChat" THEN ManualDelay(1) ELSE ManualDelay(2)

DefaultDelays(s) == [i \in 1..Len(s) |-> DefaultDelay]

\* A new scene has the participants 'you' (fixed) and one contact.
DefaultParticipants == {"you", "contact1"}

DefaultSpeakers(s) ==
    [i \in 1..Len(s) |-> IF s[i].owner = "actor" THEN "you" ELSE "contact1"]

(***************************************************************************)
(* Key events.  e.key is one character for a printable key; "a" stands for *)
(* the keys the second shell's pattern accepts, "@" for the printable keys *)
(* it does not, "Shift" for the named keys no handler acts on.             *)
(***************************************************************************)
Keys == {"a", "@", "Backspace", "Enter", "Shift"}

IsSingleChar(k) == k \in {"a", "@"}

MatchesTypingPattern(k) == k = "a"

\* String.prototype.slice(0, -1)
SliceOffLast(s) == IF s = <<>> THEN <<>> ELSE SubSeq(s, 1, Len(s) - 1)

\* String.prototype.substring(0, n): n below 0 counts as 0, above the length as the length
Substring(s, n) ==
    IF n <= 0 THEN <<>> ELSE IF n >= Len(s) THEN s ELSE SubSeq(s, 1, n)

\* A delivered message: the script line's fields (its id is its place) and a text.
Msg(i, t) == [id |-> i, text |-> t]

RemoveAt(s, i) == SubSeq(s, 1, i - 1) \o SubSeq(s, i + 1, Len(s))

Min(x, y) == IF x <= y THEN x ELSE y

Max(x, y) == IF x >= y THEN x ELSE y

\* A pending setTimeout: the callback (kind), the line and the component
\* instance it was registered for, the milliseconds handed to setTimeout, and
\* what the callback closed over: the text of the message it delivers and, in
\* LiveChat, typingSpeedMs.  The values are those of the registration; a later
\* edit of the line does not reach them.
Timer(k, l, r, ms, text) ==
    [kind |-> k, line |-> l, inst |-> r, ms |-> ms, text |-> text,
     typingSpeedMs |-> 0]

\* LiveChat: (startDelay === 'natural' ? (text.length / 15) * 1000
\*                                      : startDelay * 1000) || 1000;
\* setTimeout keeps the whole milliseconds.
LC_startDelayMs(startDelay, len) ==
    LET ms == IF startDelay.natural THEN (len * 1000) \div 15
              ELSE startDelay.secs * 1000
    IN  IF ms = 0 THEN 1000 ELSE ms

\* LiveChat: Math.max(30, 120 - text.length) for 'natural', typingDelay * 50 || 50
\* otherwise.
LC_typingSpeedMs(delay, len) ==
    IF delay.typingNatural THEN Max(30, 120 - len)
    ELSE IF delay.typingUnits * 50 = 0 THEN 50 ELSE delay.typingUnits * 50

\* LiveChat: totalTypingTime = text.length * typingSpeedMs.
LC_totalTypingTime(text, typingSpeedMs) == Len(text) * typingSpeedMs

\* LiveChatMode: (message.delay || 2) * 1000; 0 and NaN are falsy.
LCM_delay(delay) ==
    (IF delay.nan \/ delay.secs = 0 THEN 2 ELSE delay.secs) * 1000


(***************************************************************************)
(* First shell: LiveChat and its ForcedTypingInput (src/src/App.jsx 1-718) *)
(***************************************************************************)
\* useState('') and useState(0) of useForcedTyping, in a mounted ForcedTypingInput
MountedInput == [mounted |-> TRUE, displayText |-> <<>>, scriptIndex |-> 0]

UnmountedInput == [mounted |-> FALSE, displayText |-> <<>>, scriptIndex |-> 0]

\* The values of the scene's scenarioType.
ScenarioTypes == {"direct", "contacts", "lockscreen"}

\* LiveChat's three useState calls; appState is the provider's, liveState
\* LiveContainer's ("none" while there is no LiveContainer) and scenarioType
\* that of currentScene.config, whose messages and participants are script,
\* delays, speakers and participants.
MountedLiveChat ==
    [appState |-> "live", liveState |-> "direct", scenarioType |-> "direct",
     displayedMessages |-> <<>>, scriptIndex |-> 0, isTyping |-> FALSE]

NoLiveChat ==
    [MountedLiveChat EXCEPT !.appState = "scene_editor", !.liveState = "none"]

\* The first shell's state at the start of a run of the model.
StartLiveChat ==
    IF app = "LiveChat"
    THEN {[NoLiveChat EXCEPT !.scenarioType = st] : st \in ScenarioTypes}
    ELSE {NoLiveChat}

\* LiveContainer.renderLiveState renders LiveChat for every liveState but
\* 'lockscreen' and 'contacts'.
LC_mounted ==
    liveChat.appState = "live" /\ liveChat.liveState \notin {"lockscreen", "contacts"}

\* activeMessage?.participantId === 'you', for the message at scriptIndex i
\* of a render with currentScene.config.messages = messages
LC_isActorTurnOf(messages, i) ==
    i < Len(messages) /\ messages[i + 1].owner = "actor"

\* isActorTurn of a render with scriptIndex i
isActorTurn(i) == LC_isActorTurnOf(script, i)

\* processNextMessage without its outer timer, the one that turns the typing
\* indicator on: the variant C10 has to tell from the code.
processNextMessage_NoIndicator(i, r) ==
    IF i >= Len(script) \/ isActorTurn(i) THEN <<>>
    ELSE LET message == script[i + 1] IN
         <<Timer("typing", i + 1, r,
                 LC_totalTypingTime(message.text,
                     LC_typingSpeedMs(delays[i + 1], Len(message.text))),
                 message.text)>>

\* The timers processNextMessage registers when the effect runs it for
\* scriptIndex i, of a render with currentScene.config.messages = messages,
\* whose delays are ds.
LC_processNextMessageOf(messages, ds, i, r) ==
    IF i >= Len(messages) \/ LC_isActorTurnOf(messages, i) THEN <<>>
    ELSE LET message == messages[i + 1] IN
         <<[Timer("startDelay", i + 1, r,
                  LC_startDelayMs(ds[i + 1], Len(message.text)),
                  message.text)
               EXCEPT !.typingSpeedMs =
                          LC_typingSpeedMs(ds[i + 1], Len(message.text))]>>

\* The timers processNextMessage registers when the effect runs it for scriptIndex i.
processNextMessage(i, r) == LC_processNextMessageOf(script, delays, i, r)

\* {isActorTurn && <ForcedTypingInput .../>}: the element has no key, so React keeps
\* the mounted instance, and its state, from one actor line to the next.
RenderInput(old, wasActorTurn, i) ==
    IF ~isActorTurn(i) THEN UnmountedInput
    ELSE IF wasActorTurn THEN old
    ELSE MountedInput

(***************************************************************************)
(* Second shell: LiveChatMode (src/src/App.jsx 719-1437)                   *)
(***************************************************************************)
MountedLiveChatMode ==
    [isLiveMode |-> TRUE, currentMessageIndex |-> 0, chatMessages |-> <<>>,
     isTyping |-> FALSE, typingSender |-> "", waitingForInput |-> FALSE,
     displayText |-> <<>>, scriptIndex |-> 0,
     showWizard |-> FALSE]

NoLiveChatMode == [MountedLiveChatMode EXCEPT !.isLiveMode = FALSE]

\* isComplete_chat
isComplete_chat(s) == s.currentMessageIndex >= Len(script)

\* The state the effect on [currentMessageIndex, ...] leaves, run on state s.
EffectState(s) ==
    LET i == s.currentMessageIndex IN
    IF i < Len(script)
    THEN IF script[i + 1].owner = "actor"
         THEN [s EXCEPT !.waitingForInput = TRUE, !.displayText = <<>>,
                        !.scriptIndex = 0]
         ELSE [s EXCEPT !.isTyping = TRUE, !.typingSender = script[i + 1].owner]
    ELSE s

\* The timer that effect registers.
EffectTimers(s, r) ==
    LET i == s.currentMessageIndex IN
    IF i < Len(script) /\ script[i + 1].owner # "actor"
    THEN <<Timer("delay", i + 1, r, LCM_delay(delays[i + 1]), script[i + 1].text)>>
    ELSE <<>>

(***************************************************************************)
(* Third shell: FlowProp and LiveModeView (src/src/App.jsx 1438-2111)      *)
(***************************************************************************)
\* A participant of the wizard: id (Date.now()), name, isActor.
Participant(id, name, isActor) == [id |-> id, name |-> name, isActor |-> isActor]

\* The participants the wizard gives a project when two are added in a row.
TwoParticipants == <<Participant(1, "A", TRUE), Participant(2, "B", FALSE)>>

\* The starting scenarios handleW1Selection is called with.
Modes == {"chat-only", "contacts", "sleep-mode"}

\* FlowProp's useState calls, with a project open in the main view that the
\* wizard made (so wizardStep is 'W2'); participants and mode are
\* projectConfig's, projectParticipants and projectMode currentProject's.
InitFlowProp ==
    [isLiveMode |-> FALSE, currentView |-> "main", liveMessages |-> <<>>,
     currentMessageIndex |-> 0, forcedText |-> <<>>, forcedTextIndex |-> 0,
     inputValue |-> <<>>, showLockScreen |-> FALSE, wizardStep |-> "W2",
     participants |-> TwoParticipants, mode |-> "chat-only",
     projectParticipants |-> TwoParticipants, projectMode |-> "chat-only"]

\* The same with a project of starting scenario m.
OpenedFlowProp(m) == [InitFlowProp EXCEPT !.mode = m, !.projectMode = m]

\* FlowProp's state at the start of a run of the model.
StartFlowProp ==
    IF app = "LiveModeView" THEN {OpenedFlowProp(m) : m \in Modes}
    ELSE {InitFlowProp}

\* messages.filter(m => m.isActor), as places in messages
RECURSIVE ActorFrom(_, _)
ActorFrom(messages, i) ==
    IF i > Len(messages) THEN <<>>
    ELSE IF messages[i].owner = "actor" THEN <<i>> \o ActorFrom(messages, i + 1)
    ELSE ActorFrom(messages, i + 1)

\* currentProject.messages.filter(m => m.isActor), of the render's currentProject
actorMessages == ActorFrom(script, 1)

\* A message of liveMessages: the project's message object, which holds its
\* own isActor (its id is its place in that project's messages).
FP_Msg(i, m) == [id |-> i, text |-> m.text, owner |-> m.owner]

\* liveMessages.filter(m => m.isActor).length
RECURSIVE CountActor(_)
CountActor(ms) ==
    IF ms = <<>> THEN 0
    ELSE (IF Head(ms).owner = "actor" THEN 1 ELSE 0) + CountActor(Tail(ms))

(***************************************************************************)
(* Fourth shell: LiveScreen and ForcedTypingInput (src/unnamed/part_001)   *)
(***************************************************************************)
\* App's view, LiveScreen's useState calls and its ForcedTypingInput's;
\* timingMode and initialDelay are currentProject.settings', those of a new
\* project.  The numbers of the fourth program's number inputs are held in
\* thousandths: initialDelay 3000 is the setting 3.
MountedLiveScreen ==
    [view |-> "live", messages |-> <<>>, isTyping |-> FALSE,
     currentScriptIndex |-> 0, value |-> <<>>, index |-> 0,
     timingMode |-> "natural", initialDelay |-> 3000]

NoLiveScreen == [MountedLiveScreen EXCEPT !.view = "setup"]

\* LiveScreen mounts: its useState calls; what App holds stays.
LS_mounted(s) ==
    [MountedLiveScreen EXCEPT !.timingMode = s.timingMode,
                              !.initialDelay = s.initialDelay]

\* A message's delay, of a number input's value v in thousandths.
LS_Number(v) == [ManualDelay(v \div 1000) EXCEPT !.ms = v % 1000]

\* msg.delay * 1000
LS_delayMs(delay) == delay.secs * 1000 + delay.ms

\* conversation.find((msg, index) => msg.sender === 'me' && index >= c): its place
\* in the conversation, 0 when there is none
LS_find(conversation, c) ==
    LET found == {i \in 1..Len(conversation) :
                     conversation[i].owner = "actor" /\ i - 1 >= c}
    IN IF found = {} THEN 0 ELSE CHOOSE i \in found : \A j \in found : i <= j

\* nextActorMessage of a render with currentScriptIndex c
nextActorMessage(c) == LS_find(script, c)

(***************************************************************************)
(* Fifth program: the on-screen keyboard (src/unnamed/part_000)            *)
(***************************************************************************)
\* "LÖSENORDET ÄR MIDNATTSSOL", one element a character
FORCED_TEXT ==
    <<"L", "Ö", "S", "E", "N", "O", "R", "D", "E", "T", " ", "Ä", "R", " ",
      "M", "I", "D", "N", "A", "T", "T", "S", "S", "O", "L">>

InitKeyboard == [displayText |-> <<>>, currentIndex |-> 0, isFinished |-> FALSE]

(***************************************************************************)
(* The session and the capture, read off whichever program runs            *)
(***************************************************************************)
\* The live view is shown: Main renders LiveContainer for appState 'live', the
\* second shell's App LiveChatMode while isLiveMode, FlowProp LiveModeView
\* while isLiveMode, the fourth program's App LiveScreen for view 'live'.
Live ==
    CASE app = "LiveChat" -> liveChat.appState = "live"
      [] app = "LiveChatMode" -> liveChatMode.isLiveMode
      [] app = "LiveModeView" -> flowProp.isLiveMode
      [] app = "LiveScreen" -> liveScreen.view = "live"
      [] OTHER -> TRUE

\* A session plays: the component that plays the script is rendered.  In the
\* first shell that is LiveChat, which LiveContainer leaves out while it shows
\* the lock screen or the contacts list.
Playing == IF app = "LiveChat" THEN LC_mounted ELSE Live

\* The delivered (displayed) messages.
Delivered ==
    CASE app = "LiveChat" -> liveChat.displayedMessages
      [] app = "LiveChatMode" -> liveChatMode.chatMessages
      [] app = "LiveModeView" ->
           [j \in 1..Len(flowProp.liveMessages) |->
               Msg(flowProp.liveMessages[j].id, flowProp.liveMessages[j].text)]
      [] app = "LiveScreen" -> liveScreen.messages
      [] OTHER -> <<>>

\* The cursor.
Cursor ==
    CASE app = "LiveChat" -> liveChat.scriptIndex
      [] app = "LiveChatMode" -> liveChatMode.currentMessageIndex
      [] app = "LiveModeView" -> flowProp.currentMessageIndex
      [] app = "LiveScreen" -> liveScreen.currentScriptIndex
      [] OTHER -> 0

\* The typing indicator (LiveModeView has none).
Typing ==
    CASE app = "LiveChat" -> liveChat.isTyping
      [] app = "LiveChatMode" -> liveChatMode.isTyping
      [] app = "LiveScreen" -> liveScreen.isTyping
      [] OTHER -> FALSE

\* The place in the script of the actor line whose input is awaited, 0 for none.
Awaited ==
    CASE app = "LiveChat" ->
           IF LC_mounted /\ isActorTurn(liveChat.scriptIndex)
           THEN liveChat.scriptIndex + 1 ELSE 0
      [] app = "LiveChatMode" ->
           IF /\ liveChatMode.isLiveMode
              /\ liveChatMode.waitingForInput
              /\ ~isComplete_chat(liveChatMode)
           THEN liveChatMode.currentMessageIndex + 1 ELSE 0
      [] app = "LiveModeView" ->
           IF /\ flowProp.isLiveMode
              /\ CountActor(flowProp.liveMessages) < Len(actorMessages)
           THEN actorMessages[CountActor(flowProp.liveMessages) + 1] ELSE 0
      [] app = "LiveScreen" ->
           IF liveScreen.view = "live"
           THEN nextActorMessage(liveScreen.currentScriptIndex) ELSE 0
      [] OTHER -> IF keyboard.isFinished THEN 0 ELSE 1

\* The text the capture was given to reveal (scriptText, forcedText, textToType).
TargetText ==
    CASE app = "Keyboard" -> FORCED_TEXT
      [] app = "LiveModeView" -> flowProp.forcedText
      [] OTHER -> IF Awaited = 0 THEN <<>> ELSE script[Awaited].text

\* How many characters are revealed (scriptIndex, forcedTextIndex, index, currentIndex).
RevealedLength ==
    CASE app = "LiveChat" -> forcedTyping.scriptIndex
      [] app = "LiveChatMode" -> liveChatMode.scriptIndex
      [] app = "LiveModeView" -> flowProp.forcedTextIndex
      [] app = "LiveScreen" -> liveScreen.index
      [] OTHER -> keyboard.currentIndex

\* The text in the input (displayText, inputValue, value).
DisplayText ==
    CASE app = "LiveChat" -> forcedTyping.displayText
      [] app = "LiveChatMode" -> liveChatMode.displayText
      [] app = "LiveModeView" -> flowProp.inputValue
      [] app = "LiveScreen" -> liveScreen.value
      [] OTHER -> keyboard.displayText

(***************************************************************************)
(* History: what the last handler was, told by the state it met            *)
(***************************************************************************)
FreshTyped == [n |-> 0, clean |-> TRUE]

\* The signal a key is, by the state it arrives in.
KeyOp(k) ==
    CASE k = "Backspace" -> IF RevealedLength = 0 THEN "erase0" ELSE "erase"
      [] k = "Enter" ->
           IF RevealedLength < Len(TargetText) THEN "submitRejected"
           ELSE IF RevealedLength = 0 THEN "submit0"
           ELSE "submit"
      [] IsSingleChar(k) ->
           IF RevealedLength >= Len(TargetText) THEN "printFull" ELSE "print"
      [] OTHER -> "ignored"

\* typed counts the printable keys since the awaited line changed, as long as
\* nothing but printable keys arrived.
TypedAfter(k) ==
    IF <<runs', Awaited'>> # <<runs, Awaited>> THEN FreshTyped
    ELSE IF IsSingleChar(k)
         THEN IF typed.clean
              THEN [typed EXCEPT !.n = Min(typed.n + 1, Len(TargetText) + 1)]
              ELSE typed
    ELSE IF k \in {"Backspace", "Enter"} THEN [n |-> 0, clean |-> FALSE]
    ELSE typed

NoPrior == [revealed |-> -1, display |-> <<>>]

\* prior is the capture a printable or erase signal arrived in.
PriorAfter(k) ==
    IF KeyOp(k) \in {"print", "erase"}
    THEN [revealed |-> RevealedLength, display |-> DisplayText]
    ELSE NoPrior

HistKey(k) ==
    /\ lastOp' = KeyOp(k)
    /\ typed' = TypedAfter(k)
    /\ prior' = PriorAfter(k)
    /\ snapshot' = snapshot

\* snapshot is the script a session started with, from the step that mounts
\* the component that plays it to the step that unmounts it.
SnapshotAfter(op) ==
    CASE op = "goLive" -> script'
      [] op = "exit" -> <<>>
      [] OTHER -> snapshot

HistOp(op) ==
    /\ lastOp' = op
    /\ typed' = TypedAfter("none")
    /\ prior' = NoPrior
    /\ snapshot' = SnapshotAfter(op)

(***************************************************************************)
(* First shell: the handlers                                               *)
(***************************************************************************)
\* A timer's callback still has a mounted component to set the state of.
\* A timer of an unmounted LiveChat acting on the mounted one: the variant C27
\* has to tell from the code.
LC_current_AnyRun(t) == LC_mounted

LC_current(t) == LC_mounted /\ t.inst = runs

\* useForcedTyping.handleKeyDown without the scriptIndex > 0 guard on Backspace:
\* the variant C4 has to tell from the code.
LC_useForcedTyping_EraseUnguarded(ft, scriptText, k) ==
    CASE k = "Backspace" ->
           [ft EXCEPT !.displayText = SliceOffLast(@), !.scriptIndex = @ - 1]
      [] k = "Enter" -> ft
      [] IsSingleChar(k) ->
           IF ft.scriptIndex < Len(scriptText)
           THEN [ft EXCEPT !.displayText = Append(@, scriptText[ft.scriptIndex + 1]),
                           !.scriptIndex = @ + 1]
           ELSE ft
      [] OTHER -> ft

\* useForcedTyping.handleKeyDown: the hook's state after key k.
LC_useForcedTyping(ft, scriptText, k) ==
    CASE k = "Backspace" ->
           IF ft.scriptIndex > 0
           THEN [ft EXCEPT !.displayText = SliceOffLast(@), !.scriptIndex = @ - 1]
           ELSE ft
      [] k = "Enter" -> ft
      [] IsSingleChar(k) ->
           IF ft.scriptIndex < Len(scriptText)
           THEN [ft EXCEPT !.displayText = Append(@, scriptText[ft.scriptIndex + 1]),
                           !.scriptIndex = @ + 1]
           ELSE ft
      [] OTHER -> ft

\* Enter completing whatever is revealed: the variant C6 has to tell from the code.
LC_completes_Always(ft, scriptText, k) == k = "Enter"

\* useForcedTyping.handleKeyDown: key k calls onComplete(displayText).
LC_completes(ft, scriptText, k) ==
    k = "Enter" /\ ft.scriptIndex >= Len(scriptText)

\* isComplete, which enables the send button
LC_isComplete(ft, scriptText) == ft.scriptIndex >= Len(scriptText)

\* handleActorSend without setScriptIndex: the variant C26 has to tell from the
\* code.
LC_handleActorSend_KeepsCursor(text) ==
    LET i == liveChat.scriptIndex IN
    /\ liveChat' = [liveChat EXCEPT
                      !.displayedMessages = Append(@, Msg(i + 1, text))]
    /\ forcedTyping' = RenderInput(forcedTyping, isActorTurn(i), i)
    /\ timers' = timers

\* LiveChat.handleActorSend(text), then the render and the effect on scriptIndex.
LC_handleActorSend(text) ==
    LET i == liveChat.scriptIndex IN
    /\ liveChat' = [liveChat EXCEPT
                      !.displayedMessages = Append(@, Msg(i + 1, text)),
                      !.scriptIndex = i + 1]
    /\ forcedTyping' = RenderInput(forcedTyping, isActorTurn(i), i + 1)
    /\ timers' = timers \o processNextMessage(i + 1, runs)

\* LiveChat mounts under liveState st: its useState calls, the input of an
\* actor's first line, and the effect, which runs processNextMessage for
\* scriptIndex 0.
LC_mount(st) ==
    /\ runs' = runs + 1
    /\ liveChat' = [MountedLiveChat EXCEPT !.liveState = st,
                                           !.scenarioType = liveChat.scenarioType]
    /\ forcedTyping' = RenderInput(UnmountedInput, FALSE, 0)
    /\ timers' = timers \o processNextMessage(0, runs + 1)
    /\ typingStarted' = {}

\* AppProvider.startLiveMode: LiveContainer mounts with liveState the scene's
\* scenarioType, and shows LiveChat at once only for 'direct'.
LC_startLiveMode ==
    /\ app = "LiveChat"
    /\ liveChat.appState = "scene_editor"
    /\ UNCHANGED <<authored, liveChatMode, flowProp, liveScreen, keyboard>>
    /\ IF liveChat.scenarioType = "direct"
       THEN /\ runs < MaxRuns
            /\ LC_mount("direct")
            /\ HistOp("goLive")
       ELSE /\ liveChat' = [NoLiveChat EXCEPT
                               !.appState = "live",
                               !.liveState = liveChat.scenarioType,
                               !.scenarioType = liveChat.scenarioType]
            /\ UNCHANGED <<runs, timers, forcedTyping, typingStarted>>
            /\ HistOp("lock")

\* LiveLockScreen's onUnlock: setLiveState(scenarioType === 'lockscreen' ?
\* 'chat' : 'contacts').
LC_onUnlock ==
    /\ app = "LiveChat"
    /\ liveChat.appState = "live"
    /\ liveChat.liveState = "lockscreen"
    /\ UNCHANGED <<authored, liveChatMode, flowProp, liveScreen, keyboard>>
    /\ IF liveChat.scenarioType = "lockscreen"
       THEN /\ runs < MaxRuns
            /\ LC_mount("chat")
            /\ HistOp("goLive")
       ELSE /\ liveChat' = [liveChat EXCEPT !.liveState = "contacts"]
            /\ UNCHANGED <<runs, timers, forcedTyping, typingStarted>>
            /\ HistOp("lock")

\* LiveMessagesList's onSelectContact, of a contact that has a last message
\* in the scene's message history: setLiveState('chat').
LC_onSelectContact ==
    /\ app = "LiveChat"
    /\ liveChat.appState = "live"
    /\ liveChat.liveState = "contacts"
    /\ runs < MaxRuns
    /\ UNCHANGED <<authored, liveChatMode, flowProp, liveScreen, keyboard>>
    /\ LC_mount("chat")
    /\ HistOp("goLive")

\* LiveChat's onExitList, of the button shown for scenarioType 'contacts':
\* setLiveState('contacts'); LiveChat unmounts and nothing clears its timers.
LC_onExitList ==
    /\ app = "LiveChat"
    /\ LC_mounted
    /\ liveChat.scenarioType = "contacts"
    /\ liveChat' = [NoLiveChat EXCEPT !.appState = "live",
                                      !.liveState = "contacts",
                                      !.scenarioType = liveChat.scenarioType]
    /\ forcedTyping' = UnmountedInput
    /\ UNCHANGED <<authored, runs, timers, liveChatMode, flowProp, liveScreen,
                   keyboard, typingStarted>>
    /\ HistOp("exit")

\* AppProvider.exitLiveMode, of LiveContainer's button: LiveContainer and
\* LiveChat unmount; nothing clears the timers.
LC_exitLiveMode ==
    /\ app = "LiveChat"
    /\ liveChat.appState = "live"
    /\ liveChat' = [NoLiveChat EXCEPT !.scenarioType = liveChat.scenarioType]
    /\ forcedTyping' = UnmountedInput
    /\ UNCHANGED <<authored, runs, timers, liveChatMode, flowProp, liveScreen,
                   keyboard, typingStarted>>
    /\ HistOp("exit")

\* A key goes down in ForcedTypingInput's input.
LC_handleKeyDown(k) ==
    /\ app = "LiveChat"
    /\ forcedTyping.mounted
    /\ LET scriptText == script[liveChat.scriptIndex + 1].text IN
       IF LC_completes(forcedTyping, scriptText, k)
       THEN LC_handleActorSend(forcedTyping.displayText)
       ELSE /\ forcedTyping' = LC_useForcedTyping(forcedTyping, scriptText, k)
            /\ UNCHANGED <<liveChat, timers>>
    /\ UNCHANGED <<authored, runs, liveChatMode, flowProp, liveScreen, keyboard,
                   typingStarted>>
    /\ HistKey(k)

\* The send button: onClick={() => isComplete && onSend(displayText)}, disabled
\* unless isComplete.
LC_clickSend ==
    /\ app = "LiveChat"
    /\ forcedTyping.mounted
    /\ LC_isComplete(forcedTyping, script[liveChat.scriptIndex + 1].text)
    /\ LC_handleActorSend(forcedTyping.displayText)
    /\ UNCHANGED <<authored, runs, liveChatMode, flowProp, liveScreen, keyboard,
                   typingStarted>>
    /\ HistKey("Enter")

\* processNextMessage's outer timer: the typing indicator goes on and the inner
\* timer is registered.
LC_startDelayTimer(n) ==
    /\ app = "LiveChat"
    /\ timers[n].kind = "startDelay"
    /\ LET t == timers[n] IN
       /\ liveChat' = IF LC_current(t) THEN [liveChat EXCEPT !.isTyping = TRUE]
                      ELSE liveChat
       /\ timers' = RemoveAt(timers, n)
                     \o <<Timer("typing", t.line, t.inst,
                                LC_totalTypingTime(t.text, t.typingSpeedMs), t.text)>>
       /\ typingStarted' = IF LC_current(t) THEN typingStarted \cup {t.line}
                           ELSE typingStarted
    /\ UNCHANGED <<authored, runs, forcedTyping, liveChatMode, flowProp,
                   liveScreen, keyboard>>
    /\ HistOp("timer")

\* processNextMessage's inner timer: the message is delivered and scriptIndex
\* moves on; then the render and the effect on scriptIndex.
LC_typingTimer(n) ==
    /\ app = "LiveChat"
    /\ timers[n].kind = "typing"
    /\ LET t == timers[n]
           i == liveChat.scriptIndex
       IN IF LC_current(t)
          THEN /\ liveChat' = [liveChat EXCEPT
                                 !.isTyping = FALSE,
                                 !.displayedMessages =
                                     Append(@, Msg(t.line, t.text)),
                                 !.scriptIndex = i + 1]
               /\ forcedTyping' = RenderInput(forcedTyping, isActorTurn(i), i + 1)
               /\ timers' = RemoveAt(timers, n) \o processNextMessage(i + 1, runs)
          ELSE /\ timers' = RemoveAt(timers, n)
               /\ UNCHANGED <<liveChat, forcedTyping>>
    /\ UNCHANGED <<authored, runs, liveChatMode, flowProp, liveScreen, keyboard,
                   typingStarted>>
    /\ HistOp("timer")

(***************************************************************************)
(* Second shell: the handlers                                              *)
(***************************************************************************)
LCM_current(t) == liveChatMode.isLiveMode /\ t.inst = runs

\* useForcedTyping.handleKeyDown of the second shell: three ifs in a row, each
\* on the state the handler was created with.
LCM_useForcedTyping(s, scriptText, k) ==
    LET typedOn ==
            IF MatchesTypingPattern(k) /\ s.scriptIndex < Len(scriptText)
            THEN [s EXCEPT !.displayText = Append(@, scriptText[s.scriptIndex + 1]),
                           !.scriptIndex = @ + 1]
            ELSE s
        erased ==
            IF k = "Backspace" /\ Len(s.displayText) > 0
            THEN [typedOn EXCEPT !.displayText = SliceOffLast(@),
                                 !.scriptIndex = Max(0, @ - 1)]
            ELSE typedOn
    IN IF k = "Enter" /\ s.scriptIndex >= Len(scriptText)
       THEN [erased EXCEPT !.displayText = <<>>, !.scriptIndex = 0]
       ELSE erased

LCM_completes(s, scriptText, k) ==
    k = "Enter" /\ s.scriptIndex >= Len(scriptText)

\* The onComplete callback LiveChatMode gives the hook.
LCM_onComplete(s, completedText) ==
    [s EXCEPT !.chatMessages =
                  Append(@, Msg(s.currentMessageIndex + 1, completedText)),
              !.waitingForInput = FALSE]

\* handleRestart without setChatMessages([]): the variant C9 has to tell from
\* the code.
LCM_restarted_KeepsMessages(s) ==
    [s EXCEPT !.currentMessageIndex = 0,
              !.isTyping = FALSE, !.waitingForInput = FALSE,
              !.displayText = <<>>, !.scriptIndex = 0]

\* handleRestart's five setters.
LCM_restarted(s) ==
    [s EXCEPT !.currentMessageIndex = 0, !.chatMessages = <<>>,
              !.isTyping = FALSE, !.waitingForInput = FALSE,
              !.displayText = <<>>, !.scriptIndex = 0]

\* The lines whose typing indicator the effect turns on, run on state s.
LCM_typingOf(s) ==
    IF EffectTimers(s, runs) = <<>> THEN {} ELSE {s.currentMessageIndex + 1}

\* App.handleStartLive: LiveChatMode mounts and its effect runs.
LCM_handleStartLive ==
    /\ app = "LiveChatMode"
    /\ ~liveChatMode.isLiveMode
    /\ ~liveChatMode.showWizard
    /\ projects.currentProjectId # 0
    /\ runs < MaxRuns
    /\ runs' = runs + 1
    /\ liveChatMode' = EffectState(MountedLiveChatMode)
    /\ timers' = timers \o EffectTimers(MountedLiveChatMode, runs + 1)
    /\ typingStarted' = LCM_typingOf(MountedLiveChatMode)
    /\ UNCHANGED <<authored, liveChat, forcedTyping, flowProp, liveScreen,
                   keyboard>>
    /\ HistOp("goLive")

\* App.handleExitLive: LiveChatMode unmounts; nothing clears its timers.
LCM_handleExitLive ==
    /\ app = "LiveChatMode"
    /\ liveChatMode.isLiveMode
    /\ liveChatMode' = NoLiveChatMode
    /\ UNCHANGED <<authored, runs, timers, liveChat, forcedTyping, flowProp,
                   liveScreen, keyboard, typingStarted>>
    /\ HistOp("exit")

\* A key goes down in the input, which is rendered while waitingForInput and
\* not isComplete_chat.
LCM_handleKeyDown(k) ==
    /\ app = "LiveChatMode"
    /\ liveChatMode.isLiveMode
    /\ liveChatMode.waitingForInput
    /\ ~isComplete_chat(liveChatMode)
    /\ LET s == liveChatMode
           scriptText == script[s.currentMessageIndex + 1].text
           typedState == LCM_useForcedTyping(s, scriptText, k)
       IN IF LCM_completes(s, scriptText, k)
          THEN /\ liveChatMode' = LCM_onComplete(typedState, s.displayText)
               /\ timers' = Append(timers, Timer("advance", s.currentMessageIndex + 1,
                                                 runs, 500, <<>>))
          ELSE /\ liveChatMode' = typedState
               /\ timers' = timers
    /\ UNCHANGED <<authored, runs, liveChat, forcedTyping, flowProp, liveScreen,
                   keyboard, typingStarted>>
    /\ HistKey(k)

\* The effect's timer for a line of the other party: the message is delivered
\* and the 500 ms timer registered.
LCM_delayTimer(n) ==
    /\ app = "LiveChatMode"
    /\ timers[n].kind = "delay"
    /\ LET t == timers[n] IN
       /\ liveChatMode' =
              IF LCM_current(t)
              THEN [liveChatMode EXCEPT
                      !.isTyping = FALSE,
                      !.chatMessages = Append(@, Msg(t.line, t.text))]
              ELSE liveChatMode
       /\ timers' = RemoveAt(timers, n)
                     \o <<Timer("advance", t.line, t.inst, 500, <<>>)>>
    /\ UNCHANGED <<authored, runs, liveChat, forcedTyping, flowProp, liveScreen,
                   keyboard, typingStarted>>
    /\ HistOp("timer")

\* The 500 ms timer: currentMessageIndex moves on, and the effect runs.
LCM_advanceTimer(n) ==
    /\ app = "LiveChatMode"
    /\ timers[n].kind = "advance"
    /\ LET t == timers[n]
           moved == [liveChatMode EXCEPT !.currentMessageIndex = @ + 1]
       IN IF LCM_current(t)
          THEN /\ liveChatMode' = EffectState(moved)
               /\ timers' = RemoveAt(timers, n) \o EffectTimers(moved, runs)
               /\ typingStarted' = typingStarted \cup LCM_typingOf(moved)
          ELSE /\ timers' = RemoveAt(timers, n)
               /\ UNCHANGED <<liveChatMode, typingStarted>>
    /\ UNCHANGED <<authored, runs, liveChat, forcedTyping, flowProp, liveScreen,
                   keyboard>>
    /\ HistOp("timer")

\* handleRestart, offered once isComplete_chat; the effect runs again if
\* currentMessageIndex changed.
LCM_handleRestart ==
    /\ app = "LiveChatMode"
    /\ liveChatMode.isLiveMode
    /\ isComplete_chat(liveChatMode)
    /\ LET s == LCM_restarted(liveChatMode)
           again == liveChatMode.currentMessageIndex # 0
       IN /\ liveChatMode' = IF again THEN EffectState(s) ELSE s
          /\ timers' = IF again THEN timers \o EffectTimers(s, runs) ELSE timers
          /\ typingStarted' = IF again THEN LCM_typingOf(s) ELSE {}
    /\ UNCHANGED <<authored, runs, liveChat, forcedTyping, flowProp, liveScreen,
                   keyboard>>
    /\ HistOp("restart")

(***************************************************************************)
(* Third shell: the handlers.  The state is FlowProp's own, so a timer's   *)
(* callback sets it whatever view is shown.                                *)
(***************************************************************************)
\* e.key.length === 1 || e.key === ' '
FP_isPrintable(k) == IsSingleChar(k)

\* A timer of the third shell: its callback closes over the currentProject of
\* the render that registered it, whatever project is current when it fires.
FP_Timer(k, l, r) == [kind |-> k, line |-> l, inst |-> r, messages |-> script]

\* MainView.startLiveMode, of a render whose currentProject has the given
\* messages: FlowProp's state after it.
FP_startLiveMode(s, messages) ==
    LET started == [s EXCEPT !.isLiveMode = TRUE, !.currentView = "live",
                             !.liveMessages = <<>>, !.currentMessageIndex = 0]
        actors == ActorFrom(messages, 1)
    IN IF Len(actors) > 0
       THEN [started EXCEPT !.forcedText = messages[actors[1]].text,
                            !.forcedTextIndex = 0, !.inputValue = <<>>]
       ELSE started

\* MainView.handleGoLive, of the Go Live button, which is disabled while the
\* project has no messages: a 'sleep-mode' project shows the lock screen and
\* starts live mode from a timer, any other starts it at once.
FP_handleGoLive ==
    /\ app = "LiveModeView"
    /\ flowProp.currentView = "main"
    /\ ~flowProp.showLockScreen
    /\ Len(script) > 0
    /\ runs < MaxRuns
    /\ UNCHANGED <<authored, liveChat, forcedTyping, liveChatMode, liveScreen,
                   keyboard, typingStarted>>
    /\ IF flowProp.projectMode = "sleep-mode"
       THEN /\ flowProp' = [flowProp EXCEPT !.showLockScreen = TRUE]
            /\ timers' = Append(timers, FP_Timer("lock", 0, runs + 1))
            /\ runs' = runs
            /\ HistOp("lock")
       ELSE /\ flowProp' = FP_startLiveMode(flowProp, script)
            /\ timers' = timers
            /\ runs' = runs + 1
            /\ HistOp("goLive")

\* The timer of handleGoLive: the lock screen goes and live mode starts.
FP_lockTimer(n) ==
    /\ app = "LiveModeView"
    /\ timers[n].kind = "lock"
    /\ flowProp' = FP_startLiveMode([flowProp EXCEPT !.showLockScreen = FALSE],
                                    timers[n].messages)
    /\ timers' = RemoveAt(timers, n)
    /\ runs' = runs + 1
    /\ UNCHANGED <<authored, liveChat, forcedTyping, liveChatMode, liveScreen,
                   keyboard, typingStarted>>
    /\ HistOp("goLive")

\* The back button of LiveModeView.
FP_exitLive ==
    /\ app = "LiveModeView"
    /\ flowProp.currentView = "live"
    /\ flowProp' = [flowProp EXCEPT !.isLiveMode = FALSE, !.currentView = "main"]
    /\ UNCHANGED <<authored, runs, timers, liveChat, forcedTyping, liveChatMode,
                   liveScreen, keyboard, typingStarted>>
    /\ HistOp("exit")

\* LiveModeView.handleKeyDown: FlowProp's state after key k.
FP_keyState(s, k) ==
    IF s.forcedText = <<>> THEN s
    ELSE CASE k = "Backspace" ->
                IF s.forcedTextIndex > 0
                THEN [s EXCEPT !.forcedTextIndex = @ - 1,
                               !.inputValue =
                                   Substring(s.forcedText, s.forcedTextIndex - 1)]
                ELSE s
           [] k = "Enter" ->
                IF /\ s.forcedTextIndex >= Len(s.forcedText)
                   /\ CountActor(s.liveMessages) < Len(actorMessages)
                THEN LET m == actorMessages[CountActor(s.liveMessages) + 1] IN
                     [s EXCEPT !.liveMessages = Append(@, FP_Msg(m, script[m])),
                               !.inputValue = <<>>]
                ELSE s
           [] FP_isPrintable(k) ->
                IF s.forcedTextIndex < Len(s.forcedText)
                THEN [s EXCEPT !.forcedTextIndex = @ + 1,
                               !.inputValue =
                                   Substring(s.forcedText, s.forcedTextIndex + 1)]
                ELSE s
           [] OTHER -> s

\* LiveModeView.handleKeyDown: the timer key k registers, for the message after
\* currentMessageIndex if that one is not the actor's.
FP_keyTimers(s, k) ==
    IF /\ s.forcedText # <<>>
       /\ k = "Enter"
       /\ s.forcedTextIndex >= Len(s.forcedText)
       /\ CountActor(s.liveMessages) < Len(actorMessages)
       /\ s.currentMessageIndex + 1 < Len(script)
       /\ script[s.currentMessageIndex + 2].owner # "actor"
    THEN <<FP_Timer("next", s.currentMessageIndex + 2, runs)>>
    ELSE <<>>

FP_handleKeyDown(k) ==
    /\ app = "LiveModeView"
    /\ flowProp.currentView = "live"
    /\ flowProp' = FP_keyState(flowProp, k)
    /\ timers' = timers \o FP_keyTimers(flowProp, k)
    /\ UNCHANGED <<authored, runs, liveChat, forcedTyping, liveChatMode,
                   liveScreen, keyboard, typingStarted>>
    /\ HistKey(k)

\* The place of the first actor message after place p, 0 for none:
\* messages.slice(nextNonActorIndex + 1).find(m => m.isActor), of the
\* messages the callback closed over
FP_nextActorAfter(p, messages) ==
    LET later == {i \in 1..Len(messages) : i > p /\ messages[i].owner = "actor"}
    IN IF later = {} THEN 0 ELSE CHOOSE i \in later : \A j \in later : i <= j

\* The delayed delivery handleKeyDown registered: nextMessage and the next
\* actor message are those of the project the callback closed over.
FP_nextTimer(n) ==
    /\ app = "LiveModeView"
    /\ timers[n].kind = "next"
    /\ LET p == timers[n].line
           messages == timers[n].messages
           delivered == [flowProp EXCEPT
                           !.liveMessages = Append(@, FP_Msg(p, messages[p])),
                           !.currentMessageIndex = p - 1]
           a == FP_nextActorAfter(p, messages)
       IN flowProp' = IF a # 0
                      THEN [delivered EXCEPT !.forcedText = messages[a].text,
                                             !.forcedTextIndex = 0]
                      ELSE delivered
    /\ timers' = RemoveAt(timers, n)
    /\ UNCHANGED <<authored, runs, liveChat, forcedTyping, liveChatMode,
                   liveScreen, keyboard, typingStarted>>
    /\ HistOp("timer")

(***************************************************************************)
(* Fourth shell: the handlers                                              *)
(***************************************************************************)
\* What Math.random() returns, in thousandths, at either end of its range:
\* a message's call for its natural delay and its call for the typing time.
LS_Randoms ==
    [natural : [1..MaxLines -> {0, 999}], typing : [1..MaxLines -> {0, 999}]]

\* The values the delay input of a message is given, in thousandths: -5 and
\* -1.5, which with the typing times of 1 to 2 seconds give every order the
\* timers of two messages can fire in, and the 2 of a new message.
LS_Delays == {-5000, -1500, 2000}

\* The values the editor's delay input is given: one that lets a later
\* message's timers overtake, and the 2 of a new message.
LS_EditedDelays == {-1500, 2000}

\* The values the start delay's input is given, in thousandths.
LS_InitialDelays == {0, 3000}

\* fullScript.forEach: the setTimeout calls from message i on, cumulativeDelay
\* being c when message i is reached; a timer is due after its delay in ms,
\* at once when that is negative.
\* A timeout of LiveScreen's effect: its place in timers tells when it is due;
\* text is that of the msg a messageTimeout closed over.
LS_Timer(k, l, r, text) == [kind |-> k, line |-> l, inst |-> r, text |-> text]

RECURSIVE LS_forEachOf(_, _, _, _, _, _)
LS_forEachOf(conversation, ds, i, c, rnd, r) ==
    IF i > Len(conversation) THEN <<>>
    ELSE LET msg == conversation[i]
             isContactMessage == msg.owner # "actor"
             messageDelay == IF liveScreen.timingMode = "natural"
                             THEN Len(msg.text) * 50
                                      + (rnd.natural[i] * 500) \div 1000
                             ELSE LS_delayMs(ds[i])
             c2 == IF isContactMessage THEN c + 1000 + rnd.typing[i] ELSE c
         IN (IF isContactMessage
             THEN <<[at |-> Max(0, c), timer |-> LS_Timer("typingTimeout", i, r, <<>>)]>>
             ELSE <<>>)
            \o <<[at |-> Max(0, c2), timer |-> LS_Timer("messageTimeout", i, r, msg.text)]>>
            \o LS_forEachOf(conversation, ds, i + 1, c2 + messageDelay, rnd, r)

\* fullScript.forEach of the render's conversation
LS_forEach(i, c, rnd, r) == LS_forEachOf(script, delays, i, c, rnd, r)

\* Timers fire by their time, those of one time in the order they were registered.
RECURSIVE LS_insert(_, _)
LS_insert(sorted, x) ==
    IF sorted = <<>> THEN <<x>>
    ELSE IF Head(sorted).at <= x.at THEN <<Head(sorted)>> \o LS_insert(Tail(sorted), x)
    ELSE <<x>> \o sorted

RECURSIVE LS_byTime(_)
LS_byTime(q) ==
    IF q = <<>> THEN <<>>
    ELSE LS_insert(LS_byTime(SubSeq(q, 1, Len(q) - 1)), q[Len(q)])

\* The effect's timers, in the order they fire, for a conversation and its
\* delays.
LS_effectTimersOf(conversation, ds, rnd, r) ==
    LET q == LS_byTime(LS_forEachOf(conversation, ds, 1, liveScreen.initialDelay,
                                    rnd, r))
    IN [j \in 1..Len(q) |-> q[j].timer]

\* The effect's timers, in the order they fire.
LS_effectTimers(rnd, r) == LS_effectTimersOf(script, delays, rnd, r)

LS_current(t) == liveScreen.view = "live" /\ t.inst = runs

\* App.handleGoLive: LiveScreen mounts and its effect registers every timer;
\* rnd is what the effect's calls of Math.random() return.
LS_handleGoLive(rnd) ==
    /\ app = "LiveScreen"
    /\ liveScreen.view = "setup"
    /\ Len(script) > 0
    /\ runs < MaxRuns
    /\ runs' = runs + 1
    /\ liveScreen' = LS_mounted(liveScreen)
    /\ timers' = timers \o LS_effectTimers(rnd, runs + 1)
    /\ typingStarted' = {}
    /\ UNCHANGED <<authored, liveChat, forcedTyping, liveChatMode, flowProp,
                   keyboard>>
    /\ HistOp("goLive")

\* App.handleExitLive: LiveScreen unmounts and the effect's cleanup clears the
\* timers it registered.
LS_handleExitLive ==
    /\ app = "LiveScreen"
    /\ liveScreen.view = "live"
    /\ liveScreen' = [LS_mounted(liveScreen) EXCEPT !.view = "setup"]
    /\ timers' = SelectSeq(timers, LAMBDA t : t.inst # runs)
    /\ UNCHANGED <<authored, runs, liveChat, forcedTyping, liveChatMode, flowProp,
                   keyboard, typingStarted>>
    /\ HistOp("exit")

\* The timer due first fires.
LS_timeout ==
    /\ app = "LiveScreen"
    /\ timers # <<>>
    /\ LET t == Head(timers) IN
       IF t.kind = "typingTimeout"
       THEN /\ liveScreen' = IF LS_current(t)
                             THEN [liveScreen EXCEPT !.isTyping = TRUE]
                             ELSE liveScreen
            /\ typingStarted' = IF LS_current(t) THEN typingStarted \cup {t.line}
                                ELSE typingStarted
       ELSE /\ liveScreen' =
                   IF LS_current(t)
                   THEN [liveScreen EXCEPT
                           !.isTyping = FALSE,
                           !.messages = Append(@, Msg(t.line, t.text))]
                   ELSE liveScreen
            /\ typingStarted' = typingStarted
    /\ timers' = Tail(timers)
    /\ UNCHANGED <<authored, runs, liveChat, forcedTyping, liveChatMode, flowProp,
                   keyboard>>
    /\ HistOp("timer")

\* ForcedTypingInput.handleKeyDown without the index < textToType.length guard
\* on a printable key: the variant C23 has to tell from the code.
LS_ForcedTypingInput_PrintUnguarded(s, textToType, k) ==
    CASE k = "Backspace" ->
           IF s.index > 0
           THEN [s EXCEPT !.index = @ - 1,
                          !.value = Substring(textToType, s.index - 1)]
           ELSE s
      [] k = "Enter" ->
           IF s.index = Len(textToType)
           THEN [s EXCEPT !.value = <<>>, !.index = 0]
           ELSE s
      [] IsSingleChar(k) ->
           [s EXCEPT !.index = @ + 1, !.value = Substring(textToType, s.index + 1)]
      [] OTHER -> s

\* ForcedTypingInput.handleKeyDown: value and index after key k.
LS_ForcedTypingInput(s, textToType, k) ==
    CASE k = "Backspace" ->
           IF s.index > 0
           THEN [s EXCEPT !.index = @ - 1,
                          !.value = Substring(textToType, s.index - 1)]
           ELSE s
      [] k = "Enter" ->
           IF s.index = Len(textToType)
           THEN [s EXCEPT !.value = <<>>, !.index = 0]
           ELSE s
      [] IsSingleChar(k) /\ s.index < Len(textToType) ->
           [s EXCEPT !.index = @ + 1, !.value = Substring(textToType, s.index + 1)]
      [] OTHER -> s

\* Enter refused for an empty textToType: the variant C7 has to tell from the code.
LS_completes_NonEmpty(s, textToType, k) ==
    k = "Enter" /\ s.index = Len(textToType) /\ textToType # <<>>

LS_completes(s, textToType, k) == k = "Enter" /\ s.index = Len(textToType)

\* handleActorSend without setCurrentScriptIndex: the variant C30 has to tell
\* from the code.
LS_handleActorSend_KeepsCursor(s, actorMessage) ==
    LET nextMessage == nextActorMessage(s.currentScriptIndex) IN
    IF nextMessage = 0 THEN s
    ELSE IF actorMessage = script[nextMessage].text
    THEN [s EXCEPT !.messages = Append(@, Msg(nextMessage, script[nextMessage].text))]
    ELSE s

\* LiveScreen.handleActorSend(actorMessage): messages and currentScriptIndex after it.
LS_handleActorSend(s, actorMessage) ==
    LET nextMessage == nextActorMessage(s.currentScriptIndex) IN
    IF nextMessage = 0 THEN s
    ELSE IF actorMessage = script[nextMessage].text
    THEN [s EXCEPT !.messages = Append(@, Msg(nextMessage, script[nextMessage].text)),
                   !.currentScriptIndex = nextMessage]
    ELSE s

\* A key goes down in ForcedTypingInput, rendered while there is a next actor message.
LS_handleKeyDown(k) ==
    /\ app = "LiveScreen"
    /\ liveScreen.view = "live"
    /\ nextActorMessage(liveScreen.currentScriptIndex) # 0
    /\ LET textToType == script[nextActorMessage(liveScreen.currentScriptIndex)].text
           sent == IF LS_completes(liveScreen, textToType, k)
                   THEN LS_handleActorSend(liveScreen, textToType)
                   ELSE liveScreen
       IN liveScreen' = LS_ForcedTypingInput(sent, textToType, k)
    /\ UNCHANGED <<authored, runs, timers, liveChat, forcedTyping, liveChatMode,
                   flowProp, keyboard, typingStarted>>
    /\ HistKey(k)

(***************************************************************************)
(* The on-screen keyboard: the handlers                                    *)
(***************************************************************************)
\* showKeyPopup(e), past its length test, reads
\* e.currentTarget.getBoundingClientRect().  Key calls its onClick with the
\* key's value, a string, so e.currentTarget is undefined and the read throws
\* a TypeError.
KB_showKeyPopupThrows == keyboard.currentIndex < Len(FORCED_TEXT)

\* handleKeyPress, of every letter key and the space bar: showKeyPopup is
\* called first, and when it throws neither setDisplayText nor
\* setCurrentIndex is reached.
KB_handleKeyPress ==
    /\ app = "Keyboard"
    /\ ~keyboard.isFinished
    /\ keyboard' =
           IF keyboard.currentIndex < Len(FORCED_TEXT) /\ ~KB_showKeyPopupThrows
           THEN [keyboard EXCEPT
                   !.displayText = Append(@, FORCED_TEXT[keyboard.currentIndex + 1]),
                   !.currentIndex = @ + 1]
           ELSE keyboard
    /\ UNCHANGED <<authored, runs, timers, liveChat, forcedTyping, liveChatMode,
                   flowProp, liveScreen, typingStarted>>
    /\ HistKey("a")

KB_handleBackspace ==
    /\ app = "Keyboard"
    /\ ~keyboard.isFinished
    /\ keyboard' =
           IF keyboard.currentIndex > 0
           THEN [keyboard EXCEPT !.displayText = SliceOffLast(@),
                                 !.currentIndex = @ - 1]
           ELSE keyboard
    /\ UNCHANGED <<authored, runs, timers, liveChat, forcedTyping, liveChatMode,
                   flowProp, liveScreen, typingStarted>>
    /\ HistKey("Backspace")

\* handleEnter, and the effect on isFinished, which registers the 3 s timer
KB_handleEnter ==
    /\ app = "Keyboard"
    /\ ~keyboard.isFinished
    /\ IF keyboard.currentIndex = Len(FORCED_TEXT)
       THEN /\ keyboard' = [keyboard EXCEPT !.isFinished = TRUE]
            /\ timers' = Append(timers, Timer("reset", 0, runs, 3000, <<>>))
       ELSE UNCHANGED <<keyboard, timers>>
    /\ UNCHANGED <<authored, runs, liveChat, forcedTyping, liveChatMode,
                   flowProp, liveScreen, typingStarted>>
    /\ HistKey("Enter")

\* The 3 s timer of the effect on isFinished.  No key ever moves currentIndex
\* off 0, so handleEnter never sets isFinished and no state has this timer
\* pending: the next-state relations, where it could never be taken, leave
\* the step out.
KB_resetTimer(n) ==
    /\ app = "Keyboard"
    /\ timers[n].kind = "reset"
    /\ keyboard' = InitKeyboard
    /\ timers' = RemoveAt(timers, n)
    /\ UNCHANGED <<authored, runs, liveChat, forcedTyping, liveChatMode,
                   flowProp, liveScreen, typingStarted>>
    /\ HistOp("timer")

(***************************************************************************)
(* The specification                                                       *)
(***************************************************************************)
(***************************************************************************)
(* The wait before an automatic line starts.                               *)
(***************************************************************************)
\* The second argument of the setTimeout call that registered a pending typing
\* timer of LiveChat: totalTypingTime, the time the typing indicator is shown.
TypingMs(t) == t.ms

\* The second argument of the setTimeout call that registered a pending pre-delay
\* timer: startDelayMs in LiveChat, delay in LiveChatMode.
PreDelayMs(t) == t.ms

(***************************************************************************)
(* The projects a shell keeps.  projects holds the list of them (in the    *)
(* fourth program the object, key by key), the id of the project that is   *)
(* open, the id of the first shell's scene, and lastId, the number of ids  *)
(* Date.now() and generateId() have given; 0 and "null" stand for null.    *)
(* script, delays, speakers, participants and the settings in the shell's  *)
(* record are those of the project, or scene, that is open.                *)
(***************************************************************************)
MaxIds == 4

\* The projects a list is given at most.
MaxProjects == 2

\* array.find(x => x.id === id): the place of the first such element, 0 for
\* undefined.
IndexOf(list, id) ==
    LET found == {i \in 1..Len(list) : list[i].id = id}
    IN IF found = {} THEN 0 ELSE CHOOSE i \in found : \A j \in found : i <= j

\* array.map(x => x.id === r.id ? r : x)
MapById(list, r) ==
    [i \in 1..Len(list) |-> IF list[i].id = r.id THEN r ELSE list[i]]

NoProjects ==
    [list |-> <<>>, currentProjectId |-> 0, currentSceneId |-> 0, lastId |-> 0]

\* The config addSceneToProject gives a new scene.
NewSceneConfig ==
    [scenarioType |-> "direct", script |-> <<>>, delays |-> <<>>,
     speakers |-> <<>>, participants |-> DefaultParticipants]

\* currentScene.config, as the scene editor and the live views hold it.
CurrentScene ==
    [scenarioType |-> liveChat.scenarioType, script |-> script,
     delays |-> delays, speakers |-> speakers, participants |-> participants]

\* AppProvider's currentProject, projects.find(p => p.id === currentProjectId):
\* its place in the list, 0 for undefined.
LC_currentProject(ps) == IndexOf(ps.list, ps.currentProjectId)

\* AppProvider's currentScene,
\* currentProject?.scenes?.find(s => s.id === currentSceneId): its place in the
\* project's scenes, 0 for undefined.
LC_currentScene(ps) ==
    IF LC_currentProject(ps) = 0 THEN 0
    ELSE IndexOf(ps.list[LC_currentProject(ps)].scenes, ps.currentSceneId)

\* currentScene.config; where there is no currentScene, the variables hold the
\* config of a new scene.
LC_config(ps) ==
    IF LC_currentScene(ps) = 0 THEN NewSceneConfig
    ELSE ps.list[LC_currentProject(ps)].scenes[LC_currentScene(ps)].config

\* AppProvider.updateScene(currentScene.id, updates), the updates giving config.
LC_updateScene(ps, config) ==
    IF LC_currentScene(ps) = 0 THEN ps
    ELSE [ps EXCEPT !.list[LC_currentProject(ps)].scenes[LC_currentScene(ps)].config
                        = config]

\* A project of the second shell: its id, and its messages with their delays.
LCM_Project(id, s, d) == [id |-> id, script |-> s, delays |-> d]

\* ProjectProvider.updateProject(project.id, {messages}): the list is told of
\* the updated currentProject.
LCM_updateProject(ps, s, d) ==
    [ps EXCEPT !.list = MapById(@, LCM_Project(ps.currentProjectId, s, d))]

\* A project of the third shell: its id, messages, participants and mode.
FP_Project(id, s, parts, mode) ==
    [id |-> id, script |-> s, participants |-> parts, mode |-> mode]

\* MainView.handleAddMessage's
\* setProjects(projects.map(p => p.id === currentProject.id ? updatedProject : p)).
FP_setProjects(ps, s) ==
    [ps EXCEPT !.list = MapById(@, FP_Project(ps.currentProjectId, s,
                                              flowProp.projectParticipants,
                                              flowProp.projectMode))]

\* A project of the fourth program, under its key in projects: conversation,
\* with the delays, and settings.
LS_Project(id, s, d, timingMode, initialDelay) ==
    [id |-> id, script |-> s, delays |-> d, timingMode |-> timingMode,
     initialDelay |-> initialDelay]

\* mockProjects['proj-123'].conversation: one message of the contact.
MockConversation ==
    <<[owner |-> "auto",
       text |-> <<"M", "e", "e", "t", " ", "m", "e", " ", "a", "t", " ", "t",
                  "h", "e", " ", "p", "i", "e", "r", ".">>]>>

\* mockProjects['proj-123']: delay 3, timingMode 'natural', initialDelay 3.
MockProject ==
    LS_Project("proj-123", MockConversation, <<LS_Number(3000)>>, "natural", 3000)

\* generateId(): an id no project has yet.
generateId(n) == "id_" \o ToString(n)

\* The id of the project kept under a key: the mock project has no id, so
\* currentProject.id of a project opened from it is undefined.
LS_idOf(key) == IF key = "proj-123" THEN "undefined" ELSE key

\* { ...projects, [r.id]: r }
LS_put(list, r) ==
    IF IndexOf(list, r.id) = 0 THEN Append(list, r) ELSE MapById(list, r)

\* The projects at the start of a run of the model: the project that is open
\* is the only one the shell keeps; in the fourth program it is a new project
\* that was not saved yet, beside the mock project.
OpenedProjects ==
    CASE app = "LiveChat" ->
           [list |-> <<[id |-> 1,
                        scenes |-> <<[id |-> 2, config |-> CurrentScene]>>]>>,
            currentProjectId |-> 1, currentSceneId |-> 2, lastId |-> 2]
      [] app = "LiveChatMode" ->
           [list |-> <<LCM_Project(1, script, delays)>>,
            currentProjectId |-> 1, currentSceneId |-> 0, lastId |-> 1]
      [] app = "LiveModeView" ->
           [list |-> <<FP_Project(1, script, flowProp.projectParticipants,
                                  flowProp.projectMode)>>,
            currentProjectId |-> 1, currentSceneId |-> 0, lastId |-> 1]
      [] app = "LiveScreen" ->
           [list |-> <<MockProject>>,
            currentProjectId |-> generateId(1), currentSceneId |-> 0,
            lastId |-> 1]
      [] OTHER -> NoProjects

\* The fourth program's state at the start of a run of the model: SetupScreen,
\* with either timing mode.
StartLiveScreen ==
    IF app = "LiveScreen"
    THEN {[NoLiveScreen EXCEPT !.timingMode = m] : m \in {"natural", "manual"}}
    ELSE {NoLiveScreen}

\* The delays at the start of a run of the model: those of new lines, and in
\* the fourth program's manual mode, whose delay inputs are shown, any.
StartDelays ==
    IF app = "LiveScreen" /\ liveScreen.timingMode = "manual"
    THEN [1..Len(script) -> {LS_Number(v) : v \in LS_Delays}]
    ELSE {DefaultDelays(script)}

Init ==
    /\ app \in Apps
    /\ script \in Scripts(app)
    /\ liveScreen \in StartLiveScreen
    /\ delays \in StartDelays
    /\ speakers = DefaultSpeakers(script)
    /\ participants = DefaultParticipants
    /\ runs = 0
    /\ timers = <<>>
    /\ liveChat \in StartLiveChat
    /\ forcedTyping = UnmountedInput
    /\ liveChatMode = NoLiveChatMode
    /\ flowProp \in StartFlowProp
    /\ keyboard = InitKeyboard
    /\ lastOp = "init"
    /\ typed = FreshTyped
    /\ prior = NoPrior
    /\ typingStarted = {}
    /\ snapshot = <<>>
    /\ projects = OpenedProjects

Next ==
    \/ LC_startLiveMode
    \/ LC_onUnlock
    \/ LC_onSelectContact
    \/ LC_onExitList
    \/ LC_exitLiveMode
    \/ \E k \in Keys : LC_handleKeyDown(k)
    \/ LC_clickSend
    \/ \E n \in 1..Len(timers) : LC_startDelayTimer(n)
    \/ \E n \in 1..Len(timers) : LC_typingTimer(n)
    \/ LCM_handleStartLive
    \/ LCM_handleExitLive
    \/ \E k \in Keys : LCM_handleKeyDown(k)
    \/ \E n \in 1..Len(timers) : LCM_delayTimer(n)
    \/ \E n \in 1..Len(timers) : LCM_advanceTimer(n)
    \/ LCM_handleRestart
    \/ FP_handleGoLive
    \/ \E n \in 1..Len(timers) : FP_lockTimer(n)
    \/ FP_exitLive
    \/ \E k \in Keys : FP_handleKeyDown(k)
    \/ \E n \in 1..Len(timers) : FP_nextTimer(n)
    \/ \E rnd \in LS_Randoms : LS_handleGoLive(rnd)
    \/ LS_handleExitLive
    \/ \E k \in Keys : LS_handleKeyDown(k)
    \/ LS_timeout
    \/ KB_handleKeyPress
    \/ KB_handleBackspace
    \/ KB_handleEnter

Spec == Init /\ [][Next]_vars

(***************************************************************************)
(* Properties                                                              *)
(***************************************************************************)
ScriptedApps == {"LiveChat", "LiveChatMode", "LiveModeView", "LiveScreen"}

\* The handler of the step was Enter (or the send button).
SubmitStep == lastOp' \in {"submit", "submit0", "submitRejected"}

\* The program's own state: everything but the history variables.
programVars ==
    <<app, script, runs, timers, liveChat, forcedTyping, liveChatMode, flowProp,
      liveScreen, keyboard>>

\* C1: the delivered list is the script's lines in authored order, each once:
\* the j-th delivered message is line j, so none is delivered twice, skipped
\* or out of its place.
C1_DeliveredInAuthoredOrder ==
    \A j \in 1..Len(Delivered) : Delivered[j].id = j

\* C2: from a freshly begun capture, exactly length(target) printable keys,
\* whichever they are, followed by a submit hand the target text to the
\* completion callback, which delivers the awaited line with it.
C2_FullyTypedSubmitEmitsTarget ==
    [][(/\ app \in ScriptedApps
        /\ Awaited # 0
        /\ SubmitStep
        /\ typed.clean
        /\ typed.n = Len(TargetText))
       => Delivered' = Append(Delivered, Msg(Awaited, TargetText))]_vars

\* C3: every delivered message carries the text of its own script line.
C3_DeliveredTextIsScripted ==
    \A j \in 1..Len(Delivered) :
        Delivered[j].text = script[Delivered[j].id].text

\* C4: revealedLength is never negative, and a Backspace arriving at
\* revealedLength 0 leaves revealedLength and the displayed text as they were.
C4_EraseAtZeroIsNoOp ==
    [][/\ RevealedLength' >= 0
       /\ lastOp' = "erase0" => UNCHANGED <<RevealedLength, DisplayText>>]_vars

C4_Witness == lastOp = "erase0" /\ Awaited # 0 /\ Len(TargetText) > 0

\* C5: while a capture is awaited, 0 <= revealedLength <= length(targetText)
\* and the displayed text is the first revealedLength characters of targetText.
C5_DisplayIsRevealedPrefix ==
    Awaited # 0 =>
        /\ 0 <= RevealedLength
        /\ RevealedLength <= Len(TargetText)
        /\ DisplayText = Substring(TargetText, RevealedLength)

\* C6: an Enter arriving while revealedLength < length(targetText) changes
\* nothing of the program's state: nothing is delivered, the cursor and the
\* capture stay, the same line stays awaited, and no timer is registered, so
\* nothing is left to fire once the text is complete.
C6_PrematureSubmitIsNoOp ==
    [][lastOp' = "submitRejected" =>
           /\ UNCHANGED programVars
           /\ UNCHANGED <<Delivered, Cursor, RevealedLength, DisplayText, Awaited>>]_vars

C6_Witness == lastOp = "submitRejected" /\ RevealedLength > 0 /\ app \in ScriptedApps

\* The session moved on from the awaited line: the cursor advanced, or (second
\* shell) the 500 ms timer that advances it was registered.
Advances ==
    \/ Cursor' > Cursor
    \/ /\ app = "LiveChatMode"
       /\ timers' = Append(timers, Timer("advance", Awaited, runs, 500, <<>>))

\* C7: an Enter arriving for an awaited actor line whose target text is empty,
\* with revealedLength 0, delivers the (empty) line and advances the session.
C7_EmptyTargetSubmits ==
    [][(/\ app \in ScriptedApps
        /\ Awaited # 0
        /\ TargetText = <<>>
        /\ RevealedLength = 0
        /\ SubmitStep)
       => /\ Delivered' = Append(Delivered, Msg(Awaited, <<>>))
          /\ Awaited' # Awaited
          /\ Advances]_vars

C7_Witness ==
    /\ lastOp = "submit0"
    /\ app \in ScriptedApps
    /\ Delivered # <<>>
    /\ Delivered[Len(Delivered)].text = <<>>
    /\ script[Delivered[Len(Delivered)].id].owner = "actor"

\* C8: once the session is left, nothing is delivered, the typing indicator
\* does not change and the cursor does not move, until a session is started
\* again.
C8_NothingAfterExit ==
    [][(~Playing /\ ~Playing') => UNCHANGED <<Delivered, Typing, Cursor>>]_vars

\* What of LiveChatMode's state can be seen or read later: typingSender is read
\* only while isTyping.
Observable(s) == [s EXCEPT !.typingSender = IF s.isTyping THEN @ ELSE ""]

\* The pending timers of instance r.
TimersOf(q, r) == SelectSeq(q, LAMBDA t : t.inst = r)

\* C9: a restart leaves the program in the state a fresh start on the same
\* script is in: nothing delivered, the cursor at 0, the capture reset, and
\* pending exactly the timers a fresh start registers; the program's future
\* is a function of that state.  (Second shell: handleRestart; LiveScreen:
\* going live again on the same conversation.)
C9_RestartIsFreshStart ==
    [][/\ lastOp' = "restart" =>
            /\ Observable(liveChatMode') = Observable(EffectState(MountedLiveChatMode))
            /\ TimersOf(timers', runs') = EffectTimers(MountedLiveChatMode, runs')
            /\ Delivered' = <<>>
       /\ (app = "LiveScreen" /\ lastOp' = "goLive") =>
            /\ liveScreen' = LS_mounted(liveScreen)
            /\ \E rnd \in LS_Randoms : timers' = LS_effectTimers(rnd, runs')]_vars

C9_Witness ==
    /\ lastOp = "restart"
    /\ Len(script) = 2
    /\ script[1].owner = "auto"
    /\ liveChatMode.isTyping

\* C10: every delivered line of the other party had its typing indicator
\* turned on, earlier in the same run (first, second and fourth programs: the
\* third has no typing indicator).
C10_TypingStartedBeforeDelivered ==
    app \in {"LiveChat", "LiveChatMode", "LiveScreen"} =>
        \A j \in 1..Len(Delivered) :
            script[Delivered[j].id].owner = "auto" => Delivered[j].id \in typingStarted

C10_Witness ==
    /\ app \in {"LiveChat", "LiveChatMode", "LiveScreen"}
    /\ \E j \in 1..Len(Delivered) : script[Delivered[j].id].owner = "auto"

\* Line i of the script is in the delivered list.
DeliveredLine(i) == \E j \in 1..Len(Delivered) : Delivered[j].id = i

\* C11: while a session plays, no line is awaited from the actor and no line
\* has its typing indicator turned on before every line ahead of it was
\* delivered.
C11_NoEventAheadOfDelivery ==
    Playing =>
        /\ Awaited # 0 => \A i \in 1..(Awaited - 1) : DeliveredLine(i)
        /\ \A n \in typingStarted : \A i \in 1..(n - 1) : DeliveredLine(i)

\* The timers whose callbacks lead to a line being shown: the typing and the
\* delivery timers (the second shell's 500 ms timer only advances the cursor).
DeliveryTimerKinds ==
    {"startDelay", "typing", "delay", "next", "typingTimeout", "messageTimeout"}

\* The line a delivery timer is for: of the messages its callback closed over
\* (third shell), of the script otherwise.
LineOfTimer(t) ==
    IF t.kind = "next" THEN t.messages[t.line] ELSE script[t.line]

\* C12: no pending delivery timer is for an actor's line, and a step that
\* appends an actor's line to the delivered list is an Enter (or send) step.
C12_NoTimerForActorLine ==
    [][/\ \A n \in 1..Len(timers') :
            timers'[n].kind \in DeliveryTimerKinds
                => LineOfTimer(timers'[n]).owner # "actor"
       /\ (/\ Len(Delivered') = Len(Delivered) + 1
           /\ script[Delivered'[Len(Delivered')].id].owner = "actor")
          => SubmitStep]_vars

\* C16: live mode is never entered on a script with no lines.
C16_NoLiveOnEmptyScript ==
    (app \in ScriptedApps /\ Live) => Len(script) > 0

\* The timer of the step, when the step is a timer's callback: the place in
\* timers of the one that fired.
FiredTimers ==
    {n \in 1..Len(timers) :
        /\ Len(timers') >= Len(timers) - 1
        /\ SubSeq(timers', 1, Len(timers) - 1) = RemoveAt(timers, n)}

\* C18: a timer's callback that delivers a line or toggles the typing
\* indicator belongs to a timer registered in the run that is live, never to
\* one left over from an earlier run.
C18_NoTimerOfEarlierRunActs ==
    [][(/\ lastOp' = "timer"
        /\ <<Delivered', Typing'>> # <<Delivered, Typing>>)
       => \E n \in FiredTimers : timers[n].inst = runs]_vars

\* C19: whenever an actor line becomes the awaited line, revealedLength is 0
\* and the displayed text is empty.
C19_CaptureStartsEmpty ==
    [][(Awaited' # 0 /\ <<runs', Awaited'>> # <<runs, Awaited>>)
       => (RevealedLength' = 0 /\ DisplayText' = <<>>)]_vars

\* C20: an Enter that follows an accepted Enter at once, with a line of
\* non-empty text awaited and no key in between, delivers nothing and
\* registers no timer.
C20_RepeatedSubmitDeliversNothing ==
    [][(/\ lastOp \in {"submit", "submit0"}
        /\ SubmitStep
        /\ app \in ScriptedApps
        /\ Awaited # 0
        /\ script[Awaited].text # <<>>)
       => (Delivered' = Delivered /\ timers' = timers)]_vars

(***************************************************************************)
(* A live run left to itself: live mode is entered, every timer fires in   *)
(* time and the actor types what is awaited and sends it; nobody leaves.   *)
(***************************************************************************)
StartStep ==
    \/ LC_startLiveMode
    \/ LC_onUnlock
    \/ LC_onSelectContact
    \/ LCM_handleStartLive
    \/ FP_handleGoLive
    \/ \E rnd \in LS_Randoms : LS_handleGoLive(rnd)

TimerStep ==
    \/ \E n \in 1..Len(timers) : LC_startDelayTimer(n)
    \/ \E n \in 1..Len(timers) : LC_typingTimer(n)
    \/ \E n \in 1..Len(timers) : LCM_delayTimer(n)
    \/ \E n \in 1..Len(timers) : LCM_advanceTimer(n)
    \/ \E n \in 1..Len(timers) : FP_lockTimer(n)
    \/ \E n \in 1..Len(timers) : FP_nextTimer(n)
    \/ LS_timeout

\* The key of an actor who follows the script: a letter while text is left to
\* reveal, then Enter.
ActorKey == IF RevealedLength < Len(TargetText) THEN "a" ELSE "Enter"

ActorStep ==
    /\ Awaited # 0
    /\ \/ LC_handleKeyDown(ActorKey)
       \/ LCM_handleKeyDown(ActorKey)
       \/ FP_handleKeyDown(ActorKey)
       \/ LS_handleKeyDown(ActorKey)

\* The user of the on-screen keyboard presses letter keys and Enter.
KeyboardStep == KB_handleKeyPress \/ KB_handleEnter

NextLive == StartStep \/ TimerStep \/ ActorStep \/ KeyboardStep

FairSpec ==
    /\ Init
    /\ [][NextLive]_vars
    /\ WF_vars(TimerStep)
    /\ WF_vars(ActorStep)
    /\ WF_vars(KB_handleKeyPress)
    /\ WF_vars(KB_handleEnter)

\* Every line of the script is in the delivered list.
AllDelivered == \A i \in 1..Len(script) : DeliveredLine(i)

\* C14: a session playing a script that has lines gets every line of it
\* delivered in the end, when timers fire and the actor types and sends.
C14_EveryLineDeliveredInTheEnd ==
    (app \in ScriptedApps /\ Playing /\ Len(script) > 0) ~> AllDelivered

(***************************************************************************)
(* The first two shells with every authored delay: LiveChat's DelaySelector *)
(* gives 'natural' or a number of seconds from 0 up; LiveChatMode's number  *)
(* input gives parseInt of what is typed, a number of either sign or NaN    *)
(* (min="0" stops only the input's arrows), and a new message has delay 2.  *)
(***************************************************************************)
DelayApps == {"LiveChat", "LiveChatMode"}

DelaySettings(a) ==
    IF a = "LiveChat"
    THEN {ManualDelay(d) : d \in 0..MaxDelay} \cup {NaturalDelay}
    ELSE {ManualDelay(d) : d \in (-MaxDelay)..MaxDelay}
             \cup {ManualDelay(2), NaNDelay}

\* Every line has a delay: ScriptBuilder shows the number input of every line,
\* and in the script editor a line keeps its startDelay when its participant
\* is changed to 'you'.
DelaysOf(a, s) == [1..Len(s) -> DelaySettings(a)]

InitDelay ==
    /\ app \in DelayApps
    /\ script \in Scripts(app)
    /\ delays \in DelaysOf(app, script)
    /\ speakers = DefaultSpeakers(script)
    /\ participants = DefaultParticipants
    /\ runs = 0
    /\ timers = <<>>
    /\ liveChat \in StartLiveChat
    /\ forcedTyping = UnmountedInput
    /\ liveChatMode = NoLiveChatMode
    /\ flowProp \in StartFlowProp
    /\ liveScreen = NoLiveScreen
    /\ keyboard = InitKeyboard
    /\ lastOp = "init"
    /\ typed = FreshTyped
    /\ prior = NoPrior
    /\ typingStarted = {}
    /\ snapshot = <<>>
    /\ projects = OpenedProjects

NextDelay ==
    \/ LC_startLiveMode
    \/ LC_onUnlock
    \/ LC_onSelectContact
    \/ LC_onExitList
    \/ LC_exitLiveMode
    \/ \E k \in Keys : LC_handleKeyDown(k)
    \/ LC_clickSend
    \/ \E n \in 1..Len(timers) : LC_startDelayTimer(n)
    \/ \E n \in 1..Len(timers) : LC_typingTimer(n)
    \/ LCM_handleStartLive
    \/ LCM_handleExitLive
    \/ \E k \in Keys : LCM_handleKeyDown(k)
    \/ \E n \in 1..Len(timers) : LCM_delayTimer(n)
    \/ \E n \in 1..Len(timers) : LCM_advanceTimer(n)
    \/ LCM_handleRestart

DelaySpec == InitDelay /\ [][NextDelay]_vars

PreDelayKinds == {"startDelay", "delay"}

\* C15: an automatic line with a manual delay of d seconds, d = 0 included,
\* waits exactly d * 1000 ms before it starts: every pending pre-delay timer of
\* such a line was registered with d * 1000 ms (0 ms when d = 0).
C15_ManualDelayIsExact ==
    \A n \in 1..Len(timers) :
        (/\ timers[n].kind \in PreDelayKinds
         /\ ~delays[timers[n].line].natural
         /\ ~delays[timers[n].line].nan)
            => PreDelayMs(timers[n]) = delays[timers[n].line].secs * 1000

(***************************************************************************)
(* Authoring.  LiveChat's scene editor (ScriptEditor, ParticipantsEditor),  *)
(* LiveChatMode's ScriptBuilder, FlowProp's MainView and LiveScreen's       *)
(* SetupScreen edit the script; a new scene and a new project start with    *)
(* no messages.  script, delays, speakers and participants are those of    *)
(* the project, or scene, that is open; projects keeps every project of    *)
(* the shell, and an edit of the first three shells is written to it at    *)
(* once (updateScene, updateProject, setProjects), one of the fourth when  *)
(* SetupScreen is left (handleSaveProject).                                *)
(***************************************************************************)
AuthoringApps == ScriptedApps

\* addParticipant makes the id from Date.now(): an id no participant and no
\* message holds.  The model has two contact ids.
ContactIds == {"contact1", "contact2"}

NewContactIds ==
    {c \in ContactIds :
        /\ c \notin participants
        /\ \A i \in 1..Len(speakers) : speakers[i] # c}

OwnerOf(participantId) == IF participantId = "you" THEN "actor" ELSE "auto"

\* Main renders SceneEditorScreen for appState 'scene_editor' and
\* LiveContainer for 'live'; the second shell's App renders ProjectDashboard
\* when neither live mode nor the wizard is shown and a project is open;
\* FlowProp.renderView renders the lock screen before everything and MainView
\* for 'main'; App.renderView renders SetupScreen for view 'setup' and
\* LiveScreen for 'live'.
EditorShown ==
    CASE app = "LiveChat" -> liveChat.appState = "scene_editor"
      [] app = "LiveChatMode" ->
           /\ ~liveChatMode.isLiveMode
           /\ ~liveChatMode.showWizard
           /\ projects.currentProjectId # 0
      [] app = "LiveModeView" ->
           flowProp.currentView = "main" /\ ~flowProp.showLockScreen
      [] app = "LiveScreen" -> liveScreen.view = "setup"
      [] OTHER -> FALSE

\* What an edit leaves alone: every session's state and the pending timers.
sessionVars ==
    <<app, runs, timers, liveChat, forcedTyping, liveChatMode, flowProp,
      liveScreen, keyboard, typingStarted>>

\* The number of messages of the scenes s.
RECURSIVE LinesOf(_)
LinesOf(s) ==
    IF s = <<>> THEN 0 ELSE Len(Head(s).config.script) + LinesOf(Tail(s))

\* The number of messages of the first shell's projects.
RECURSIVE LC_lines(_)
LC_lines(list) ==
    IF list = <<>> THEN 0 ELSE LinesOf(Head(list).scenes) + LC_lines(Tail(list))

\* ScriptEditor.addMessage, saved by the effect on messages.
SE_addMessage ==
    /\ app = "LiveChat"
    /\ EditorShown
    /\ LC_lines(projects.list) < MaxLines
    /\ script' = Append(script, [owner |-> "actor", text |-> <<>>])
    /\ delays' = Append(delays, DefaultDelay)
    /\ speakers' = Append(speakers, "you")
    /\ UNCHANGED <<participants, sessionVars>>
    /\ projects' = LC_updateScene(projects, CurrentScene')
    /\ HistOp("edit")

\* ScriptEditor.updateLocalMessage(index, {participantId}): the select offers
\* the participants of the scene.
SE_updateParticipantId(index, participantId) ==
    /\ app = "LiveChat"
    /\ EditorShown
    /\ participantId \in participants
    /\ speakers' = [speakers EXCEPT ![index] = participantId]
    /\ script' = [script EXCEPT ![index].owner = OwnerOf(participantId)]
    /\ UNCHANGED <<delays, participants, sessionVars>>
    /\ projects' = LC_updateScene(projects, CurrentScene')
    /\ HistOp("edit")

\* ScriptEditor.updateLocalMessage(index, {text}).
SE_updateText(index, text) ==
    /\ app = "LiveChat"
    /\ EditorShown
    /\ script' = [script EXCEPT ![index].text = text]
    /\ UNCHANGED <<delays, speakers, participants, sessionVars>>
    /\ projects' = LC_updateScene(projects, CurrentScene')
    /\ HistOp("edit")

\* ScriptEditor.removeMessage(index).
SE_removeMessage(index) ==
    /\ app = "LiveChat"
    /\ EditorShown
    /\ script' = RemoveAt(script, index)
    /\ delays' = RemoveAt(delays, index)
    /\ speakers' = RemoveAt(speakers, index)
    /\ UNCHANGED <<participants, sessionVars>>
    /\ projects' = LC_updateScene(projects, CurrentScene')
    /\ HistOp("edit")

\* ParticipantsEditor.addParticipant.
PE_addParticipant ==
    /\ app = "LiveChat"
    /\ EditorShown
    /\ \E id \in NewContactIds : participants' = participants \cup {id}
    /\ UNCHANGED <<script, delays, speakers, sessionVars>>
    /\ projects' = LC_updateScene(projects, CurrentScene')
    /\ HistOp("edit")

\* ParticipantsEditor.removeParticipant(id): the button of every participant
\* but the fixed one; if (participants.length <= 2) return.
PE_removeParticipant(id) ==
    /\ app = "LiveChat"
    /\ EditorShown
    /\ id \in participants \ {"you"}
    /\ participants' = IF Cardinality(participants) <= 2 THEN participants
                       ELSE participants \ {id}
    /\ UNCHANGED <<script, delays, speakers, sessionVars>>
    /\ projects' = LC_updateScene(projects, CurrentScene')
    /\ HistOp("edit")

\* SetupScreen.addMessage: the sender alternates, starting with the contact.
SS_addMessage ==
    /\ app = "LiveScreen"
    /\ EditorShown
    /\ Len(script) < MaxLines
    /\ LET lastSender == IF Len(script) > 0 THEN script[Len(script)].owner
                         ELSE "actor"
           newSender == IF lastSender = "actor" THEN "auto" ELSE "actor"
       IN  script' = Append(script, [owner |-> newSender, text |-> <<>>])
    /\ delays' = Append(delays, DefaultDelay)
    /\ speakers' = DefaultSpeakers(script')
    /\ UNCHANGED <<participants, sessionVars>>
    /\ projects' = projects
    /\ HistOp("edit")

\* SetupScreen.updateMessage(id, field, value) for the fields sender, text
\* and delay; the delay input, whose value is Number(e.target.value), here in
\* thousandths, is rendered in manual timing mode.
SS_updateMessage(index, field, value) ==
    /\ app = "LiveScreen"
    /\ EditorShown
    /\ \/ /\ field = "sender" /\ value \in Owners
          /\ script' = [script EXCEPT ![index].owner = value]
          /\ delays' = delays
       \/ /\ field = "text" /\ value \in Texts
          /\ script' = [script EXCEPT ![index].text = value]
          /\ delays' = delays
       \/ /\ field = "delay" /\ value \in Int
          /\ liveScreen.timingMode = "manual"
          /\ script' = script
          /\ delays' = [delays EXCEPT ![index] = LS_Number(value)]
    /\ speakers' = DefaultSpeakers(script')
    /\ UNCHANGED <<participants, sessionVars>>
    /\ projects' = projects
    /\ HistOp("edit")

\* SetupScreen.deleteMessage(id).
SS_deleteMessage(index) ==
    /\ app = "LiveScreen"
    /\ EditorShown
    /\ script' = RemoveAt(script, index)
    /\ delays' = RemoveAt(delays, index)
    /\ speakers' = DefaultSpeakers(script')
    /\ UNCHANGED <<participants, sessionVars>>
    /\ projects' = projects
    /\ HistOp("edit")

\* What a step from one view to another leaves alone.
viewVars == <<runs, timers, forcedTyping, keyboard, typingStarted>>

\* SetupScreen.updateSettings(key, value), of the Natural and Manual buttons
\* and of the start delay's number input (value in thousandths).
SS_updateSettings(key, value) ==
    /\ app = "LiveScreen"
    /\ EditorShown
    /\ \/ /\ key = "timingMode" /\ value \in {"natural", "manual"}
          /\ liveScreen' = [liveScreen EXCEPT !.timingMode = value]
       \/ /\ key = "initialDelay" /\ value \in Int
          /\ liveScreen' = [liveScreen EXCEPT !.initialDelay = value]
    /\ UNCHANGED <<authored, viewVars, liveChat, liveChatMode, flowProp>>
    /\ HistOp("edit")

\* SceneEditorScreen's select: updateScene(currentScene.id, {scenarioType}).
SES_updateScenarioType(scenarioType) ==
    /\ app = "LiveChat"
    /\ EditorShown
    /\ liveChat' = [liveChat EXCEPT !.scenarioType = scenarioType]
    /\ UNCHANGED <<app, script, delays, speakers, participants, viewVars,
                   liveChatMode, flowProp, liveScreen>>
    /\ projects' = LC_updateScene(projects, CurrentScene')
    /\ HistOp("edit")

\* SceneEditorScreen's back button: setAppState('project_overview').
SES_back ==
    /\ app = "LiveChat"
    /\ liveChat.appState = "scene_editor"
    /\ liveChat' = [liveChat EXCEPT !.appState = "project_overview"]
    /\ UNCHANGED <<authored, viewVars, liveChatMode, flowProp, liveScreen>>
    /\ HistOp("view")

\* The provider holds ps and Main renders the screen of appState: the
\* variables hold currentScene.config.
LC_show(appState, ps) ==
    /\ projects' = ps
    /\ liveChat' = [liveChat EXCEPT !.appState = appState,
                                    !.scenarioType = LC_config(ps).scenarioType]
    /\ script' = LC_config(ps).script
    /\ delays' = LC_config(ps).delays
    /\ speakers' = LC_config(ps).speakers
    /\ participants' = LC_config(ps).participants
    /\ UNCHANGED <<app, viewVars, liveChatMode, flowProp, liveScreen>>

\* ProjectOverviewScreen's button of the n-th scene of currentProject:
\* setCurrentSceneId(scene.id); setAppState('scene_editor').
PO_openScene(n) ==
    /\ app = "LiveChat"
    /\ liveChat.appState = "project_overview"
    /\ LC_currentProject(projects) # 0
    /\ LET scenes == projects.list[LC_currentProject(projects)].scenes IN
       /\ n \in 1..Len(scenes)
       /\ LC_show("scene_editor",
                  [projects EXCEPT !.currentSceneId = scenes[n].id])
    /\ HistOp("view")

\* ProjectOverviewScreen.handleAddScene with a name: addSceneToProject adds to
\* currentProject a scene of type 'direct' with two participants and no
\* messages, whose id is Date.now(), and the scene editor opens on it.
PO_handleAddScene ==
    /\ app = "LiveChat"
    /\ liveChat.appState = "project_overview"
    /\ LC_currentProject(projects) # 0
    /\ projects.lastId < MaxIds
    /\ Len(projects.list[LC_currentProject(projects)].scenes) < MaxScenes
    /\ LET id == projects.lastId + 1
           newScene == [id |-> id, config |-> NewSceneConfig]
       IN  LC_show("scene_editor",
                   [projects EXCEPT
                       !.list[LC_currentProject(projects)].scenes =
                           Append(@, newScene),
                       !.currentSceneId = id,
                       !.lastId = id])
    /\ HistOp("view")

\* ProjectOverviewScreen's back button, rendered when there is a
\* currentProject: setAppState('welcome').
PO_back ==
    /\ app = "LiveChat"
    /\ liveChat.appState = "project_overview"
    /\ LC_currentProject(projects) # 0
    /\ liveChat' = [liveChat EXCEPT !.appState = "welcome"]
    /\ UNCHANGED <<authored, viewVars, liveChatMode, flowProp, liveScreen>>
    /\ HistOp("view")

\* WelcomeScreen's button of the p-th project: setCurrentProjectId(p.id);
\* setAppState('project_overview').  currentSceneId stays, so currentScene is
\* found only if the project opened holds the scene it names.
WS_openProject(p) ==
    /\ app = "LiveChat"
    /\ liveChat.appState = "welcome"
    /\ p \in 1..Len(projects.list)
    /\ LC_show("project_overview",
               [projects EXCEPT !.currentProjectId = projects.list[p].id])
    /\ HistOp("view")

\* WelcomeScreen.handleCreate with a name: createProject adds a project with no
\* scenes, whose id is Date.now(), makes it the current one and opens its
\* overview.
WS_handleCreate ==
    /\ app = "LiveChat"
    /\ liveChat.appState = "welcome"
    /\ Len(projects.list) < MaxProjects
    /\ projects.lastId < MaxIds
    /\ LET id == projects.lastId + 1 IN
       LC_show("project_overview",
               [projects EXCEPT
                   !.list = Append(@, [id |-> id, scenes |-> <<>>]),
                   !.currentProjectId = id,
                   !.lastId = id])
    /\ HistOp("view")

\* deleteProject(p.id), of the delete button of the p-th project on the welcome
\* screen: setProjects(prev => prev.filter(...)); if (currentProjectId ===
\* projectId) { setCurrentProjectId(null); setAppState('welcome'); }
WS_deleteProject(p) ==
    /\ app = "LiveChat"
    /\ liveChat.appState = "welcome"
    /\ p \in 1..Len(projects.list)
    /\ LET projectId == projects.list[p].id IN
       LC_show("welcome",
               [projects EXCEPT
                   !.list = SelectSeq(@, LAMBDA q : q.id # projectId),
                   !.currentProjectId = IF @ = projectId THEN 0 ELSE @])
    /\ HistOp("view")

\* ScriptBuilder.addMessage, of the button that is disabled while the form's
\* text is blank; sender and delay are the form's.
SB_addMessage(sender, text, delay) ==
    /\ app = "LiveChatMode"
    /\ EditorShown
    /\ Len(script) < MaxLines
    /\ text # <<>>
    /\ script' = Append(script, [owner |-> sender, text |-> text])
    /\ delays' = Append(delays, delay)
    /\ speakers' = DefaultSpeakers(script')
    /\ UNCHANGED <<participants, sessionVars>>
    /\ projects' = LCM_updateProject(projects, script', delays')
    /\ HistOp("edit")

\* ScriptBuilder.deleteMessage(messageId).
SB_deleteMessage(index) ==
    /\ app = "LiveChatMode"
    /\ EditorShown
    /\ script' = RemoveAt(script, index)
    /\ delays' = RemoveAt(delays, index)
    /\ speakers' = DefaultSpeakers(script')
    /\ UNCHANGED <<participants, sessionVars>>
    /\ projects' = LCM_updateProject(projects, script', delays')
    /\ HistOp("edit")

\* ScriptBuilder.updateMessage(messageId, {sender}) and (messageId, {text}).
SB_updateMessage(index, field, value) ==
    /\ app = "LiveChatMode"
    /\ EditorShown
    /\ \/ field = "sender" /\ value \in Owners
          /\ script' = [script EXCEPT ![index].owner = value]
       \/ field = "text" /\ value \in Texts
          /\ script' = [script EXCEPT ![index].text = value]
    /\ speakers' = DefaultSpeakers(script')
    /\ UNCHANGED <<delays, participants, sessionVars>>
    /\ projects' = LCM_updateProject(projects, script', delays')
    /\ HistOp("edit")

\* App.handleBack, of the dashboard's back button: setCurrentProject(null).
LCM_handleBack ==
    /\ app = "LiveChatMode"
    /\ EditorShown
    /\ projects' = [projects EXCEPT !.currentProjectId = 0]
    /\ script' = <<>>
    /\ delays' = <<>>
    /\ speakers' = <<>>
    /\ UNCHANGED <<app, participants, viewVars, liveChat, liveChatMode, flowProp,
                   liveScreen>>
    /\ HistOp("view")

\* App.handleLoadProject(project), of the button of the p-th project on the
\* welcome screen, which lists projects.slice(0, 3): setCurrentProject(project).
LCM_handleLoadProject(p) ==
    /\ app = "LiveChatMode"
    /\ ~liveChatMode.isLiveMode
    /\ ~liveChatMode.showWizard
    /\ projects.currentProjectId = 0
    /\ p \in 1..Min(3, Len(projects.list))
    /\ projects' = [projects EXCEPT !.currentProjectId = projects.list[p].id]
    /\ script' = projects.list[p].script
    /\ delays' = projects.list[p].delays
    /\ speakers' = DefaultSpeakers(script')
    /\ UNCHANGED <<app, participants, viewVars, liveChat, liveChatMode, flowProp,
                   liveScreen>>
    /\ HistOp("view")

\* App.handleCreateProject, of the welcome screen: setShowWizard(true).
LCM_handleCreateProject ==
    /\ app = "LiveChatMode"
    /\ ~liveChatMode.isLiveMode
    /\ ~liveChatMode.showWizard
    /\ projects.currentProjectId = 0
    /\ liveChatMode' = [liveChatMode EXCEPT !.showWizard = TRUE]
    /\ UNCHANGED <<authored, viewVars, liveChat, flowProp, liveScreen>>
    /\ HistOp("view")

\* App.handleWizardComplete: createProject adds the wizard's project, which
\* has no messages and whose id is Date.now(), and makes it the current one.
LCM_handleWizardComplete ==
    /\ app = "LiveChatMode"
    /\ liveChatMode.showWizard
    /\ Len(projects.list) < MaxProjects
    /\ projects.lastId < MaxIds
    /\ liveChatMode' = [liveChatMode EXCEPT !.showWizard = FALSE]
    /\ LET id == projects.lastId + 1 IN
       projects' = [projects EXCEPT
                       !.list = Append(@, LCM_Project(id, <<>>, <<>>)),
                       !.currentProjectId = id,
                       !.lastId = id]
    /\ script' = <<>>
    /\ delays' = <<>>
    /\ speakers' = <<>>
    /\ UNCHANGED <<app, participants, viewVars, liveChat, flowProp, liveScreen>>
    /\ HistOp("view")

\* What prompt(...) returns: "" stands for a cancelled or empty prompt.
PromptNames == {"", "A", "B"}

\* currentProject.participants.find(p => p.name === senderName): its place,
\* 0 when there is none.
FP_findSender(senderName) ==
    LET found == {i \in 1..Len(flowProp.projectParticipants) :
                     flowProp.projectParticipants[i].name = senderName}
    IN IF found = {} THEN 0 ELSE CHOOSE i \in found : \A j \in found : i <= j

\* MainView.handleAddMessage: the two prompts; a name that no participant has
\* and an empty text add nothing.
FP_handleAddMessage(senderName, text) ==
    /\ app = "LiveModeView"
    /\ EditorShown
    /\ Len(script) < MaxLines
    /\ LET sender == FP_findSender(senderName) IN
       script' =
           IF sender # 0 /\ text # <<>>
           THEN Append(script,
                       [owner |-> IF flowProp.projectParticipants[sender].isActor
                                  THEN "actor" ELSE "auto",
                        text |-> text])
           ELSE script
    /\ delays' = DefaultDelays(script')
    /\ speakers' = DefaultSpeakers(script')
    /\ UNCHANGED <<participants, sessionVars>>
    /\ projects' = FP_setProjects(projects, script')
    /\ HistOp("edit")

\* MainView's back button: setCurrentView('home').
FP_backHome ==
    /\ app = "LiveModeView"
    /\ EditorShown
    /\ flowProp' = [flowProp EXCEPT !.currentView = "home"]
    /\ UNCHANGED <<authored, viewVars, liveChat, liveChatMode, liveScreen>>
    /\ HistOp("view")

\* HomeView's button of the p-th project, of projects.slice(0, 5):
\* setCurrentProject(project); setCurrentView('main').
FP_openProject(p) ==
    /\ app = "LiveModeView"
    /\ flowProp.currentView = "home"
    /\ ~flowProp.showLockScreen
    /\ p \in 1..Min(5, Len(projects.list))
    /\ flowProp' = [flowProp EXCEPT
                       !.currentView = "main",
                       !.projectParticipants = projects.list[p].participants,
                       !.projectMode = projects.list[p].mode]
    /\ projects' = [projects EXCEPT !.currentProjectId = projects.list[p].id]
    /\ script' = projects.list[p].script
    /\ delays' = DefaultDelays(script')
    /\ speakers' = DefaultSpeakers(script')
    /\ UNCHANGED <<app, participants, viewVars, liveChat, liveChatMode, liveScreen>>
    /\ HistOp("view")

\* SetupScreen's onBack: handleSaveProject(); setView('home').
\* handleSaveProject keeps currentProject under the key currentProject.id.
SS_onBack ==
    /\ app = "LiveScreen"
    /\ liveScreen.view = "setup"
    /\ liveScreen' = [liveScreen EXCEPT !.view = "home"]
    /\ projects' =
           [projects EXCEPT
               !.list = LS_put(@, LS_Project(projects.currentProjectId, script,
                                             delays, liveScreen.timingMode,
                                             liveScreen.initialDelay))]
    /\ UNCHANGED <<app, script, delays, speakers, participants, viewVars,
                   liveChat, liveChatMode, flowProp>>
    /\ HistOp("view")

\* App.handleOpenProject(projectId), of the Open button of a key of projects:
\* setCurrentProject(projects[projectId]); setView('setup').
LS_handleOpenProject(projectId) ==
    /\ app = "LiveScreen"
    /\ liveScreen.view = "home"
    /\ IndexOf(projects.list, projectId) # 0
    /\ LET project == projects.list[IndexOf(projects.list, projectId)] IN
       /\ script' = project.script
       /\ delays' = project.delays
       /\ liveScreen' = [liveScreen EXCEPT !.view = "setup",
                                           !.timingMode = project.timingMode,
                                           !.initialDelay = project.initialDelay]
    /\ projects' = [projects EXCEPT !.currentProjectId = LS_idOf(projectId)]
    /\ speakers' = DefaultSpeakers(script')
    /\ UNCHANGED <<app, participants, viewVars, liveChat, liveChatMode, flowProp>>
    /\ HistOp("view")

\* App.handleStartNewProject: currentProject is a project with an empty
\* conversation, whose id is generateId(); the wizard opens.
LS_handleStartNewProject ==
    /\ app = "LiveScreen"
    /\ liveScreen.view = "home"
    /\ Len(projects.list) < MaxProjects
    /\ projects.lastId < MaxIds
    /\ projects' = [projects EXCEPT
                       !.currentProjectId = generateId(projects.lastId + 1),
                       !.lastId = @ + 1]
    /\ script' = <<>>
    /\ delays' = <<>>
    /\ speakers' = <<>>
    /\ liveScreen' = [liveScreen EXCEPT !.view = "wizard",
                                        !.timingMode = "natural",
                                        !.initialDelay = 3000]
    /\ UNCHANGED <<app, participants, viewVars, liveChat, liveChatMode, flowProp>>
    /\ HistOp("view")

\* WizardScreen's onComplete, which needs a contact: setView('setup').
LS_wizardComplete ==
    /\ app = "LiveScreen"
    /\ liveScreen.view = "wizard"
    /\ liveScreen' = [liveScreen EXCEPT !.view = "setup"]
    /\ UNCHANGED <<authored, viewVars, liveChat, liveChatMode, flowProp>>
    /\ HistOp("view")

\* WizardScreen's onBack: setView('home').
LS_wizardBack ==
    /\ app = "LiveScreen"
    /\ liveScreen.view = "wizard"
    /\ liveScreen' = [liveScreen EXCEPT !.view = "home"]
    /\ UNCHANGED <<authored, viewVars, liveChat, liveChatMode, flowProp>>
    /\ HistOp("view")

\* The fourth program as App mounts: the home view, projects = mockProjects
\* and currentProject null.
HomeLiveScreen == [NoLiveScreen EXCEPT !.view = "home"]

MockProjects ==
    [list |-> <<MockProject>>, currentProjectId |-> "null", currentSceneId |-> 0,
     lastId |-> 0]

\* Authoring starts in the editor of a new project, in the fourth program in
\* the home view; the editors, the navigation between the projects and the
\* scenes, and the way into the live view and out of it follow.  The
\* sessions themselves are played under the other specifications, and the
\* fourth program makes one new project, whose delays and settings are
\* edited under SetupSpec.
InitAuthoring ==
    /\ app \in AuthoringApps
    /\ script = <<>>
    /\ delays = <<>>
    /\ speakers = <<>>
    /\ participants = DefaultParticipants
    /\ runs = 0
    /\ timers = <<>>
    /\ liveChat \in StartLiveChat
    /\ forcedTyping = UnmountedInput
    /\ liveChatMode = NoLiveChatMode
    /\ flowProp \in StartFlowProp
    /\ liveScreen = IF app = "LiveScreen" THEN HomeLiveScreen ELSE NoLiveScreen
    /\ keyboard = InitKeyboard
    /\ lastOp = "init"
    /\ typed = FreshTyped
    /\ prior = NoPrior
    /\ typingStarted = {}
    /\ snapshot = <<>>
    /\ projects = IF app = "LiveScreen" THEN MockProjects ELSE OpenedProjects

\* The texts the editors' fields are given: the empty one and one to type.
MaxEditLen == 1

EditedTexts == {AltText("a", n) : n \in 0..MaxEditLen}

\* Math.random() giving 0 at every call.
LS_NoRandom == [natural |-> [i \in 1..MaxLines |-> 0],
                typing |-> [i \in 1..MaxLines |-> 0]]

NextAuthoring ==
    \/ SE_addMessage
    \/ \E i \in 1..Len(script), p \in ContactIds \cup {"you"} :
          SE_updateParticipantId(i, p)
    \/ \E i \in 1..Len(script), t \in EditedTexts : SE_updateText(i, t)
    \/ \E i \in 1..Len(script) : SE_removeMessage(i)
    \/ SS_addMessage
    \/ \E i \in 1..Len(script), v \in Owners : SS_updateMessage(i, "sender", v)
    \/ \E i \in 1..Len(script), v \in EditedTexts : SS_updateMessage(i, "text", v)
    \/ \E i \in 1..Len(script) : SS_deleteMessage(i)
    \/ \E st \in ScenarioTypes : SES_updateScenarioType(st)
    \/ SES_back
    \/ \E n \in 1..MaxScenes : PO_openScene(n)
    \/ PO_handleAddScene
    \/ PO_back
    \/ \E p \in 1..Len(projects.list) : WS_openProject(p)
    \/ WS_handleCreate
    \/ \E p \in 1..Len(projects.list) : WS_deleteProject(p)
    \/ \E sender \in Owners, text \in EditedTexts : SB_addMessage(sender, text, DefaultDelay)
    \/ \E i \in 1..Len(script) : SB_deleteMessage(i)
    \/ \E i \in 1..Len(script), v \in Owners : SB_updateMessage(i, "sender", v)
    \/ \E i \in 1..Len(script), v \in EditedTexts : SB_updateMessage(i, "text", v)
    \/ LCM_handleBack
    \/ \E p \in 1..Len(projects.list) : LCM_handleLoadProject(p)
    \/ LCM_handleCreateProject
    \/ LCM_handleWizardComplete
    \/ \E senderName \in PromptNames, text \in EditedTexts :
          FP_handleAddMessage(senderName, text)
    \/ FP_backHome
    \/ \E p \in 1..Len(projects.list) : FP_openProject(p)
    \/ SS_onBack
    \/ \E p \in 1..Len(projects.list) : LS_handleOpenProject(projects.list[p].id)
    \/ (projects.lastId = 0 /\ LS_handleStartNewProject)
    \/ LS_wizardComplete
    \/ LS_wizardBack
    \/ LC_startLiveMode
    \/ LC_onUnlock
    \/ LC_onSelectContact
    \/ LC_onExitList
    \/ LC_exitLiveMode
    \/ LCM_handleStartLive
    \/ LCM_handleExitLive
    \/ FP_handleGoLive
    \/ FP_exitLive
    \/ LS_handleGoLive(LS_NoRandom)
    \/ LS_handleExitLive

AuthoringSpec == InitAuthoring /\ [][NextAuthoring]_vars

(***************************************************************************)
(* The fourth program's SetupScreen with the project of the start: every   *)
(* field of a message and both settings are edited, and the sessions       *)
(* between the edits are played.                                           *)
(***************************************************************************)
InitSetup == Init /\ app = "LiveScreen" /\ script = <<>>

NextSetup ==
    \/ SS_addMessage
    \/ \E i \in 1..Len(script), v \in Owners : SS_updateMessage(i, "sender", v)
    \/ \E i \in 1..Len(script), v \in EditedTexts : SS_updateMessage(i, "text", v)
    \/ \E i \in 1..Len(script), v \in LS_EditedDelays :
          SS_updateMessage(i, "delay", v)
    \/ \E i \in 1..Len(script) : SS_deleteMessage(i)
    \/ \E m \in {"natural", "manual"} : SS_updateSettings("timingMode", m)
    \/ \E v \in LS_InitialDelays : SS_updateSettings("initialDelay", v)
    \/ \E rnd \in LS_Randoms : LS_handleGoLive(rnd)
    \/ LS_handleExitLive
    \/ \E k \in Keys : LS_handleKeyDown(k)
    \/ LS_timeout

SetupSpec == InitSetup /\ [][NextSetup]_vars

(***************************************************************************)
(* The first shell's scene editor with its participants tab: messages are  *)
(* added, given to a participant and removed, participants are added and   *)
(* removed, and the scene goes live.                                       *)
(***************************************************************************)
InitRoster == InitAuthoring /\ app = "LiveChat"

NextRoster ==
    \/ SE_addMessage
    \/ \E i \in 1..Len(script), p \in ContactIds \cup {"you"} :
          SE_updateParticipantId(i, p)
    \/ \E i \in 1..Len(script) : SE_removeMessage(i)
    \/ PE_addParticipant
    \/ \E id \in ContactIds : PE_removeParticipant(id)
    \/ LC_startLiveMode
    \/ LC_onUnlock
    \/ LC_onSelectContact
    \/ LC_exitLiveMode
    \/ \E n \in 1..Len(timers) : LC_startDelayTimer(n)
    \/ \E n \in 1..Len(timers) : LC_typingTimer(n)

RosterSpec == InitRoster /\ [][NextRoster]_vars

\* C17: a live session never runs on a script with a line whose speaker is
\* not a participant of the roster: whenever LiveChat is live, every line's
\* participantId is the id of a current participant.
C17_NoLiveWithUnknownSpeaker ==
    (app = "LiveChat" /\ Live) =>
        \A i \in 1..Len(speakers) : speakers[i] \in participants

\* No shipped view edits the script while the live view is shown: the editors
\* belong to views that are not rendered then.
NoEditWhileLive ==
    [][Live => /\ script' = script
               /\ delays' = delays
               /\ speakers' = speakers]_vars

(***************************************************************************)
(* LiveChat and LiveScreen as components: the message list they are given  *)
(* is replaced while they are mounted.  LiveChat reads                     *)
(* currentScene.config.messages of the provider at every render, LiveScreen*)
(* is handed currentProject.conversation as a prop; neither copies the     *)
(* list when it mounts.  In the shipped shells the views that call         *)
(* updateScene and setCurrentProject are not rendered while the live view  *)
(* is (NoEditWhileLive), so the replacement is one of the component's      *)
(* input, made by whoever holds the provider or the prop.                  *)
(***************************************************************************)
ReplaceApps == {"LiveChat", "LiveScreen"}

\* The lists a replacement gives: up to MaxLines messages of either sender,
\* with the texts the editors' fields are given.
ReplaceScripts ==
    UNION {[1..n -> [owner : Owners, text : EditedTexts]] : n \in 0..MaxLines}

\* Math.random() giving the same at every call of an effect.
LS_EvenRandoms ==
    {[natural |-> [i \in 1..MaxLines |-> v], typing |-> [i \in 1..MaxLines |-> v]] :
        v \in {0, 999}}

\* AppProvider.updateScene with a new messages array while LiveChat is
\* mounted: LiveChat renders with the new currentScene and keeps its state;
\* processNextMessage, a useCallback on [scriptIndex,
\* currentScene.config.messages, isActorTurn], is a new function, so the
\* effect on [scriptIndex, processNextMessage] runs it again; no timer is
\* cleared.
AP_updateScene(messages) ==
    /\ app = "LiveChat"
    /\ LC_mounted
    /\ script' = messages
    /\ delays' = DefaultDelays(messages)
    /\ speakers' = DefaultSpeakers(messages)
    /\ UNCHANGED <<app, participants, runs, liveChat, liveChatMode, flowProp,
                   liveScreen, keyboard, typingStarted>>
    /\ projects' = LC_updateScene(projects, CurrentScene')
    /\ forcedTyping' =
          IF ~LC_isActorTurnOf(messages, liveChat.scriptIndex) THEN UnmountedInput
          ELSE IF isActorTurn(liveChat.scriptIndex) THEN forcedTyping
          ELSE MountedInput
    /\ timers' = timers \o LC_processNextMessageOf(messages, DefaultDelays(messages),
                                                   liveChat.scriptIndex, runs)
    /\ HistOp("replace")

\* setCurrentProject with a new conversation while LiveScreen is mounted:
\* LiveScreen renders with the new prop, and its effect on [conversation,
\* settings] runs again: the cleanup clears the timers, messages, isTyping
\* and currentScriptIndex are set back and every timer is registered anew.
\* ForcedTypingInput keeps its state if it is rendered before, in the render
\* with the new conversation and in the one after the effect.
LS_setCurrentProject(conversation, rnd) ==
    /\ app = "LiveScreen"
    /\ liveScreen.view = "live"
    /\ script' = conversation
    /\ delays' = DefaultDelays(conversation)
    /\ speakers' = DefaultSpeakers(conversation)
    /\ UNCHANGED <<app, participants, projects, runs, liveChat, forcedTyping,
                   liveChatMode, flowProp, keyboard>>
    /\ LET kept == /\ nextActorMessage(liveScreen.currentScriptIndex) # 0
                    /\ LS_find(conversation, liveScreen.currentScriptIndex) # 0
                    /\ LS_find(conversation, 0) # 0
       IN liveScreen' = [liveScreen EXCEPT
                           !.messages = <<>>,
                           !.isTyping = FALSE,
                           !.currentScriptIndex = 0,
                           !.value = IF kept THEN @ ELSE <<>>,
                           !.index = IF kept THEN @ ELSE 0]
    /\ timers' = SelectSeq(timers, LAMBDA t : t.inst # runs)
                     \o LS_effectTimersOf(conversation, DefaultDelays(conversation),
                                          rnd, runs)
    /\ typingStarted' = {}
    /\ HistOp("replace")

\* The scripts of the start are those lists too.  One session is followed:
\* its list is replaced once, by another list, and it is played on.
InitReplace == Init /\ app \in ReplaceApps /\ script \in ReplaceScripts

NextReplace ==
    \/ LC_startLiveMode
    \/ LC_onUnlock
    \/ LC_onSelectContact
    \/ \E k \in Keys : LC_handleKeyDown(k)
    \/ LC_clickSend
    \/ \E n \in 1..Len(timers) : LC_startDelayTimer(n)
    \/ \E n \in 1..Len(timers) : LC_typingTimer(n)
    \/ /\ script = snapshot
       /\ \E messages \in ReplaceScripts \ {script} : AP_updateScene(messages)
    \/ \E rnd \in LS_Randoms : LS_handleGoLive(rnd)
    \/ \E k \in Keys : LS_handleKeyDown(k)
    \/ LS_timeout
    \/ /\ script = snapshot
       /\ \E conversation \in ReplaceScripts \ {script}, rnd \in LS_EvenRandoms :
             LS_setCurrentProject(conversation, rnd)

ReplaceSpec == InitReplace /\ [][NextReplace]_vars

\* The messages delivered are lines of the script the session started with,
\* and those the program delivers by itself have that script's text.
DeliveredFromSnapshot ==
    Playing =>
        \A j \in 1..Len(Delivered) :
            /\ Delivered[j].id \in 1..Len(snapshot)
            /\ snapshot[Delivered[j].id].owner # "actor" =>
                   Delivered[j].text = snapshot[Delivered[j].id].text

C23_PrintAtFullLengthIsNoOp ==
    [][(lastOp' = "printFull" /\ RevealedLength = Len(TargetText))
       => UNCHANGED <<RevealedLength, DisplayText, Delivered>>]_vars

\* A printable key has arrived after the whole of a non-empty target was
\* revealed.
C23_Witness ==
    /\ lastOp = "printFull"
    /\ RevealedLength = Len(TargetText)
    /\ RevealedLength > 0

\* C26: in LiveChat the cursor (scriptIndex) equals the number of delivered
\* messages in every state, and every delivery of a session appends exactly
\* one message and advances the cursor by exactly one.
C26_CursorCountsDelivered ==
    [][app = "LiveChat" =>
         /\ Cursor = Len(Delivered)
         /\ (Playing /\ Playing' /\ Delivered' # Delivered) =>
               /\ Len(Delivered') = Len(Delivered) + 1
               /\ SubSeq(Delivered', 1, Len(Delivered)) = Delivered
               /\ Cursor' = Cursor + 1]_vars

\* LiveChat has delivered one line by timer and one by submit.
C26_Witness ==
    /\ app = "LiveChat"
    /\ Live
    /\ Len(Delivered) = 2
    /\ script[1].owner # script[2].owner

\* C27: in every state of a live session of LiveChat and of LiveChatMode the
\* cursor is between 0 and the number of script lines, whatever timer fires
\* late and whatever is submitted.
C27_CursorWithinScript ==
    (app \in {"LiveChat", "LiveChatMode"} /\ Live)
        => (0 <= Cursor /\ Cursor <= Len(script))

\* The cursor has reached the end of a script of MaxLines lines.
C27_Witness ==
    /\ app \in {"LiveChat", "LiveChatMode"}
    /\ Live
    /\ Len(script) = MaxLines
    /\ Cursor = Len(script)

\* The session has gone through every line of the script.
Completed == Cursor >= Len(script)

\* C28: the typing indicator is on only while an automatic line is pending:
\* whenever a session that plays awaits actor input or has completed, the
\* typing indicator is off.
C28_NoTypingWhileAwaitingOrDone ==
    (app \in ScriptedApps /\ Playing /\ (Awaited # 0 \/ Completed)) => ~Typing

\* C30: in LiveScreen an accepted submission delivers the first actor line at
\* or after currentScriptIndex and moves currentScriptIndex to just past it;
\* within one run currentScriptIndex never decreases and only a submission
\* moves it, so no actor line is delivered twice by submission; a submission
\* whose text differs from that line's text changes nothing.
C30_SubmissionsInScriptOrder ==
    [][(app = "LiveScreen" /\ Live /\ Live' /\ runs' = runs) =>
         LET n == nextActorMessage(Cursor) IN
         /\ Cursor' >= Cursor
         /\ Cursor' # Cursor => lastOp' \in {"submit", "submit0"}
         /\ lastOp' \in {"submit", "submit0"} =>
               /\ n # 0
               /\ Delivered' = Append(Delivered, Msg(n, script[n].text))
               /\ Cursor < n
               /\ Cursor' = n
         /\ n # 0 =>
               \A t \in Texts \ {script[n].text} :
                   LS_handleActorSend(liveScreen, t) = liveScreen]_vars

\* LiveScreen has taken the submissions of two actor lines in a row.
C30_Witness ==
    /\ app = "LiveScreen"
    /\ Live
    /\ lastOp \in {"submit", "submit0"}
    /\ Cursor = 2
    /\ script[1].owner = "actor"

\* C25: in the on-screen keyboard Enter marks the message as sent only when
\* currentIndex equals the forced text's length; once sent no key is accepted,
\* the only step is the reset, and the state does return to the initial state
\* (empty displayed text, currentIndex 0, not finished); and the cycle of
\* typing and sending repeats: with the user pressing keys and Enter, the
\* message is sent again and again.
C25_SendThenReset ==
    /\ [][(keyboard'.isFinished /\ ~keyboard.isFinished) =>
            /\ lastOp' \in {"submit", "submit0"}
            /\ keyboard.currentIndex = Len(FORCED_TEXT)
            /\ keyboard'.currentIndex = keyboard.currentIndex
            /\ keyboard'.displayText = keyboard.displayText]_vars
    /\ [][keyboard.isFinished =>
            (lastOp' = "timer" /\ keyboard' = InitKeyboard /\ timers' = <<>>)]_vars
    /\ (keyboard.isFinished ~> keyboard = InitKeyboard)
    /\ []<>(app = "Keyboard" => keyboard.isFinished)

\* The capture is what it was before the last two keys.
Restored == RevealedLength' = prior.revealed /\ DisplayText' = prior.display

\* C29: printable and erase signals are inverse inside the bounds: a printable
\* signal taken with revealedLength < length(targetText) and followed by an
\* erase restores revealedLength and the displayed text, and so does an erase
\* taken with revealedLength > 0 and followed by a printable signal.
C29_PrintAndEraseAreInverse ==
    [][/\ (lastOp = "print" /\ lastOp' = "erase") => Restored
       /\ (lastOp = "erase" /\ lastOp' = "print") => Restored]_vars

\* DelaySelector.handleChange(change): onChange(Math.max(0, numericValue + change)).
DS_handleChange(value, change) ==
    LET numericValue == IF value.natural THEN 0 ELSE value.secs
    IN  [value EXCEPT !.natural = FALSE, !.secs = Max(0, numericValue + change)]

\* DelaySelector.toggleNatural: onChange(isNatural ? 1 : 'natural').
DS_toggleNatural(value) ==
    IF value.natural THEN [value EXCEPT !.natural = FALSE, !.secs = 1]
    ELSE [value EXCEPT !.natural = TRUE, !.secs = 0]

\* The DelaySelector's value prop: 'natural' or a number.
DS_value(natural, n) == [natural |-> natural, secs |-> n]

\* The up and down buttons of an automatic line's Typing Speed selector
\* (updateLocalMessage(index, {typingDelay: val})); they are disabled while the
\* value is 'natural'.
SE_stepTypingDelay(index, change) ==
    /\ app = "LiveChat"
    /\ EditorShown
    /\ script[index].owner # "actor"
    /\ ~delays[index].typingNatural
    /\ LET val == DS_handleChange(DS_value(FALSE, delays[index].typingUnits),
                                  change)
       IN  /\ val.secs <= MaxDelay
           /\ delays' = [delays EXCEPT ![index].typingUnits = val.secs]
    /\ UNCHANGED <<script, speakers, participants, sessionVars>>
    /\ projects' = LC_updateScene(projects, CurrentScene')
    /\ HistOp("edit")

\* The Natural button of an automatic line's Typing Speed selector.
SE_toggleTypingDelay(index) ==
    /\ app = "LiveChat"
    /\ EditorShown
    /\ script[index].owner # "actor"
    /\ LET val == DS_toggleNatural(DS_value(delays[index].typingNatural,
                                            delays[index].typingUnits))
       IN  delays' = [delays EXCEPT ![index].typingNatural = val.natural,
                                    ![index].typingUnits = val.secs]
    /\ UNCHANGED <<script, speakers, participants, sessionVars>>
    /\ projects' = LC_updateScene(projects, CurrentScene')
    /\ HistOp("edit")

(***************************************************************************)
(* LiveChat playing one automatic line of any length up to MaxTypingLen,   *)
(* with every typingDelay.                                                 *)
(***************************************************************************)
MaxTypingLen == 150

TypingSettings ==
    {[DefaultDelay EXCEPT !.typingNatural = FALSE, !.typingUnits = u] :
        u \in 0..MaxDelay} \cup {DefaultDelay}

InitTyping ==
    /\ app = "LiveChat"
    /\ \E n \in 0..MaxTypingLen :
          script = <<[owner |-> "auto", text |-> AltText("a", n)]>>
    /\ \E d \in TypingSettings : delays = <<d>>
    /\ speakers = DefaultSpeakers(script)
    /\ participants = DefaultParticipants
    /\ runs = 0
    /\ timers = <<>>
    /\ liveChat \in StartLiveChat
    /\ forcedTyping = UnmountedInput
    /\ liveChatMode = NoLiveChatMode
    /\ flowProp \in StartFlowProp
    /\ liveScreen = NoLiveScreen
    /\ keyboard = InitKeyboard
    /\ lastOp = "init"
    /\ typed = FreshTyped
    /\ prior = NoPrior
    /\ typingStarted = {}
    /\ snapshot = <<>>
    /\ projects = OpenedProjects

NextTyping ==
    \/ \E i \in 1..Len(script), change \in {-1, 1} : SE_stepTypingDelay(i, change)
    \/ \E i \in 1..Len(script) : SE_toggleTypingDelay(i)
    \/ LC_startLiveMode
    \/ LC_onUnlock
    \/ LC_onSelectContact
    \/ LC_onExitList
    \/ LC_exitLiveMode
    \/ \E n \in 1..Len(timers) : LC_startDelayTimer(n)
    \/ \E n \in 1..Len(timers) : LC_typingTimer(n)

TypingSpec == InitTyping /\ [][NextTyping]_vars

\* C21: for an automatic line in natural timing mode, whatever the length of
\* its text, the typing indicator is shown for at most 4000 ms before the line
\* is delivered: every pending typing timer of such a line was registered with
\* at most 4000 ms.
C21_NaturalTypingIsCapped ==
    \A n \in 1..Len(timers) :
        (timers[n].kind = "typing" /\ delays[timers[n].line].typingNatural)
            => TypingMs(timers[n]) <= 4000

(***************************************************************************)
(* The first two shells with their delay editors: LiveChat's DelaySelector  *)
(* steps a number up and down and toggles 'natural'; LiveChatMode's number  *)
(* input stores parseInt of what was typed.                                 *)
(***************************************************************************)
\* The up and down buttons of an automatic line's Start Delay selector; they
\* are disabled while the value is 'natural'.
SE_stepStartDelay(index, change) ==
    /\ app = "LiveChat"
    /\ EditorShown
    /\ script[index].owner # "actor"
    /\ ~delays[index].natural
    /\ DS_handleChange(delays[index], change).secs <= MaxDelay
    /\ delays' = [delays EXCEPT ![index] = DS_handleChange(@, change)]
    /\ UNCHANGED <<script, speakers, participants, sessionVars>>
    /\ projects' = LC_updateScene(projects, CurrentScene')
    /\ HistOp("edit")

\* The Natural button of an automatic line's Start Delay selector.
SE_toggleStartDelay(index) ==
    /\ app = "LiveChat"
    /\ EditorShown
    /\ script[index].owner # "actor"
    /\ delays' = [delays EXCEPT ![index] = DS_toggleNatural(@)]
    /\ UNCHANGED <<script, speakers, participants, sessionVars>>
    /\ projects' = LC_updateScene(projects, CurrentScene')
    /\ HistOp("edit")

\* What the number input holds: nothing, or digits with or without a sign.
NumberFields ==
    [empty : {TRUE}, n : {0}] \cup [empty : {FALSE}, n : (-MaxDelay)..MaxDelay]

\* parseInt(e.target.value): NaN for the empty field.
SB_parseInt(field) == IF field.empty THEN NaNDelay ELSE ManualDelay(field.n)

\* ScriptBuilder.updateMessage(id, {delay: parseInt(e.target.value)}): the
\* number typed, negative numbers included.
SB_updateDelay(index, field) ==
    /\ app = "LiveChatMode"
    /\ EditorShown
    /\ delays' = [delays EXCEPT ![index] = SB_parseInt(field)]
    /\ UNCHANGED <<script, speakers, participants, sessionVars>>
    /\ projects' = LCM_updateProject(projects, script', delays')
    /\ HistOp("edit")

InitDelayEdit == Init /\ app \in DelayApps

NextDelayEdit ==
    \/ \E i \in 1..Len(script), change \in {-1, 1} : SE_stepStartDelay(i, change)
    \/ \E i \in 1..Len(script) : SE_toggleStartDelay(i)
    \/ \E i \in 1..Len(script), f \in NumberFields : SB_updateDelay(i, f)
    \/ NextDelay

DelayEditSpec == InitDelayEdit /\ [][NextDelayEdit]_vars

\* The pre-delay timers of the session in progress.
CurrentPreDelayTimers ==
    {n \in 1..Len(timers) :
        Playing /\ timers[n].inst = runs /\ timers[n].kind \in PreDelayKinds}

\* C24: the delay an automatic line is scheduled with is never negative: the
\* delay selector produces no negative value whatever the sequence of steps
\* up, steps down and natural toggles, and a line with a negative configured
\* delay is scheduled with 0 ms, the milliseconds being those the program
\* hands to setTimeout.
C24_DelayNeverNegative ==
    /\ app = "LiveChat" => \A i \in 1..Len(delays) : delays[i].secs >= 0
    /\ \A n \in CurrentPreDelayTimers :
          /\ PreDelayMs(timers[n]) >= 0
          /\ delays[timers[n].line].secs < 0 => PreDelayMs(timers[n]) = 0

(***************************************************************************)
(* The setup wizard of the third shell (FlowProp.WizardView).              *)
(***************************************************************************)
MaxParticipants == 3

\* FlowProp's state before a project exists: the home view.
HomeFlowProp ==
    [InitFlowProp EXCEPT !.currentView = "home", !.wizardStep = "W1",
                         !.participants = <<>>, !.mode = "none",
                         !.projectParticipants = <<>>, !.projectMode = "none"]

\* Date.now() at the time of an addition: later than every id in the list.
RECURSIVE MaxId(_)
MaxId(ps) == IF ps = <<>> THEN 0 ELSE Max(Head(ps).id, MaxId(Tail(ps)))

\* What a wizard step leaves alone.
nonWizardVars ==
    <<authored, runs, timers, liveChat, forcedTyping, liveChatMode, liveScreen,
      keyboard, typingStarted>>

\* The New Project button of the home view.
FP_newProject ==
    /\ app = "LiveModeView"
    /\ flowProp.currentView = "home"
    /\ flowProp' = [flowProp EXCEPT !.currentView = "wizard", !.wizardStep = "W1",
                                    !.participants = <<>>, !.mode = "none"]
    /\ UNCHANGED nonWizardVars
    /\ HistOp("wizard")

\* WizardView.handleW1Selection(mode).
FP_handleW1Selection(mode) ==
    /\ app = "LiveModeView"
    /\ flowProp.currentView = "wizard"
    /\ flowProp.wizardStep = "W1"
    /\ flowProp' = [flowProp EXCEPT !.mode = mode, !.wizardStep = "W2"]
    /\ UNCHANGED nonWizardVars
    /\ HistOp("wizard")

\* The Back button of step W2.
FP_wizardBack ==
    /\ app = "LiveModeView"
    /\ flowProp.currentView = "wizard"
    /\ flowProp.wizardStep = "W2"
    /\ flowProp' = [flowProp EXCEPT !.wizardStep = "W1"]
    /\ UNCHANGED nonWizardVars
    /\ HistOp("wizard")

\* WizardView.handleAddParticipant: isActor is participants.length === 0.
FP_handleAddParticipant(name) ==
    /\ app = "LiveModeView"
    /\ flowProp.currentView = "wizard"
    /\ flowProp.wizardStep = "W2"
    /\ Len(flowProp.participants) < MaxParticipants
    /\ MaxId(flowProp.participants) < MaxIds
    /\ flowProp' =
         IF name # ""
         THEN [flowProp EXCEPT !.participants =
                  Append(@, Participant(MaxId(@) + 1, name, Len(@) = 0))]
         ELSE flowProp
    /\ UNCHANGED nonWizardVars
    /\ HistOp("wizard")

\* The remove button of a participant: participants.filter(part => part.id !== p.id).
FP_removeParticipant(idx) ==
    /\ app = "LiveModeView"
    /\ flowProp.currentView = "wizard"
    /\ flowProp.wizardStep = "W2"
    /\ flowProp' = [flowProp EXCEPT !.participants =
                       SelectSeq(@, LAMBDA part : part.id # @[idx].id)]
    /\ UNCHANGED nonWizardVars
    /\ HistOp("wizard")

\* WizardView.handleFinishWizard, of the Create Project button, disabled while
\* there are fewer than two participants: setProjects([...projects,
\* newProject]); setCurrentProject(newProject); setCurrentView('main').
FP_handleFinishWizard ==
    /\ app = "LiveModeView"
    /\ flowProp.currentView = "wizard"
    /\ flowProp.wizardStep = "W2"
    /\ Len(flowProp.participants) >= 2
    /\ Len(projects.list) < MaxProjects
    /\ projects.lastId < MaxIds
    /\ flowProp' = [flowProp EXCEPT !.projectParticipants = flowProp.participants,
                                    !.projectMode = flowProp.mode,
                                    !.currentView = "main"]
    /\ LET id == projects.lastId + 1 IN
       projects' = [projects EXCEPT
                       !.list = Append(@, FP_Project(id, <<>>, flowProp.participants,
                                                     flowProp.mode)),
                       !.currentProjectId = id,
                       !.lastId = id]
    /\ script' = <<>>
    /\ delays' = <<>>
    /\ speakers' = <<>>
    /\ UNCHANGED <<app, participants, viewVars, liveChat, liveChatMode, liveScreen>>
    /\ HistOp("wizard")

\* The Back to Home button of step W1.
FP_wizardHome ==
    /\ app = "LiveModeView"
    /\ flowProp.currentView = "wizard"
    /\ flowProp.wizardStep = "W1"
    /\ flowProp' = [flowProp EXCEPT !.currentView = "home"]
    /\ UNCHANGED nonWizardVars
    /\ HistOp("wizard")

InitWizard ==
    /\ app = "LiveModeView"
    /\ script = <<>>
    /\ delays = <<>>
    /\ speakers = <<>>
    /\ participants = DefaultParticipants
    /\ runs = 0
    /\ timers = <<>>
    /\ liveChat \in StartLiveChat
    /\ forcedTyping = UnmountedInput
    /\ liveChatMode = NoLiveChatMode
    /\ flowProp = HomeFlowProp
    /\ liveScreen = NoLiveScreen
    /\ keyboard = InitKeyboard
    /\ lastOp = "init"
    /\ typed = FreshTyped
    /\ prior = NoPrior
    /\ typingStarted = {}
    /\ snapshot = <<>>
    /\ projects = NoProjects

NextWizard ==
    \/ FP_newProject
    \/ \E mode \in Modes : FP_handleW1Selection(mode)
    \/ FP_wizardBack
    \/ \E name \in PromptNames : FP_handleAddParticipant(name)
    \/ \E idx \in 1..Len(flowProp.participants) : FP_removeParticipant(idx)
    \/ (projects.list = <<>> /\ FP_handleFinishWizard)
    \/ FP_wizardHome
    \/ \E senderName \in PromptNames, text \in EditedTexts :
          FP_handleAddMessage(senderName, text)
    \/ FP_backHome
    \/ \E p \in 1..Len(projects.list) : FP_openProject(p)

WizardSpec == InitWizard /\ [][NextWizard]_vars

\* The participants of the project flagged isActor.
Actors ==
    {i \in 1..Len(flowProp.projectParticipants) :
        flowProp.projectParticipants[i].isActor}

\* C22: every project created through the wizard's add and remove operations
\* has exactly one participant flagged isActor.
C22_ExactlyOneActor ==
    (app = "LiveModeView" /\ flowProp.currentView = "main")
        => Cardinality(Actors) = 1

(***************************************************************************)
(* The third shell with one project after another: a project of up to      *)
(* MaxProjectLines messages is played, the wizard makes a new project, the *)
(* new project is given messages and played in turn.                       *)
(***************************************************************************)
MaxProjectLines == 4

\* The messages of the project that is open at the start.
ProjectScripts ==
    UNION {[1..n -> {[owner |-> o, text |-> <<"a">>] : o \in Owners}] :
              n \in 1..MaxProjectLines}

InitProject ==
    /\ app = "LiveModeView"
    /\ script \in ProjectScripts
    /\ delays = DefaultDelays(script)
    /\ speakers = DefaultSpeakers(script)
    /\ participants = DefaultParticipants
    /\ runs = 0
    /\ timers = <<>>
    /\ liveChat \in StartLiveChat
    /\ forcedTyping = UnmountedInput
    /\ liveChatMode = NoLiveChatMode
    /\ flowProp = InitFlowProp
    /\ liveScreen = NoLiveScreen
    /\ keyboard = InitKeyboard
    /\ lastOp = "init"
    /\ typed = FreshTyped
    /\ prior = NoPrior
    /\ typingStarted = {}
    /\ snapshot = <<>>
    /\ projects = OpenedProjects

\* The wizard is given the name A for the first participant, the actor, and B
\* for every other.
NextProject ==
    \/ FP_handleGoLive
    \/ FP_exitLive
    \/ \E k \in {"a", "Enter"} : FP_handleKeyDown(k)
    \/ \E n \in 1..Len(timers) : FP_nextTimer(n)
    \/ FP_backHome
    \/ FP_newProject
    \/ FP_handleW1Selection("chat-only")
    \/ FP_handleAddParticipant(IF flowProp.participants = <<>> THEN "A" ELSE "B")
    \/ FP_handleFinishWizard
    \/ \E senderName \in {"A", "B"} : FP_handleAddMessage(senderName, <<"a">>)

ProjectSpec == InitProject /\ [][NextProject]_vars

\* The third shell's currentMessageIndex stays within the messages of the
\* project that is live.  A timer that closed over a longer project and
\* fires in a session of a shorter one breaks it.
FP_IndexWithinProject ==
    (app = "LiveModeView" /\ Live) => flowProp.currentMessageIndex <= Len(script)

====
